---- MODULE Spec2Model ----
(***************************************************************************)
(* Operator flow orchestration of the SLA Digital carrier-billing          *)
(* integration: PINFlow, CheckoutFlow, FlowManager, WebhookHandler and the  *)
(* SLAClient gateway they are wired to (new FlowManager(sla.client)).       *)
(*                                                                         *)
(* Node.js runs one handler at a time; a handler gives up control only at   *)
(* an await of an upstream HTTP call.  Every action below is one such       *)
(* synchronous stretch: "...Start" runs a handler up to the await of the    *)
(* gateway request, "...Return" runs it from the gateway's answer to its    *)
(* return or throw.                                                        *)
(***************************************************************************)
EXTENDS Integers, Sequences, FiniteSets, Bags, TLC

\* ------------------------------------------------------------------------
\* Bounds of the model
\* ------------------------------------------------------------------------
MaxInFlight == 2
MaxIssues == 2
MaxRequests == 5
MaxTicks == 2
MaxSessions == 2
MaxWebhooks == 2
MaxCompletions == 2
MaxGatewayCalls == 2
MaxStored == 102
MaxSubscriptions == 2

CallIds == 1..MaxInFlight

\* ------------------------------------------------------------------------
\* Operator capability table (operators.config)
\* ------------------------------------------------------------------------
BaseConfig(flow) ==
  [flow |-> flow, noSMS |-> FALSE, usesACR |-> FALSE, requiresCorrelator |-> FALSE,
   requiresTransactionId |-> FALSE, requiresAmount |-> FALSE,
   requiresFraudToken |-> FALSE, asyncResponse |-> FALSE, webhookBased |-> FALSE,
   statusResponse |-> "", noDeleteAPI |-> FALSE, noChargeAPI |-> FALSE]

UKConfig ==
  [BaseConfig("checkout_only") EXCEPT !.asyncResponse = TRUE, !.noSMS = TRUE,
                                       !.requiresCorrelator = TRUE, !.webhookBased = TRUE]

\* one operator of every behaviour class of the configuration matrix
operatorConfigs ==
  [op \in {"vodafone-uk", "three-uk", "telenor-mm", "telenor-digi", "zain-kw", "zain-bh",
           "axiata-lk", "mobily-sa", "ooredoo-kw", "stc-kw", "etisalat-ae", "9mobile-ng"} |->
     CASE op \in {"vodafone-uk", "three-uk"} -> UKConfig
       [] op = "telenor-mm" ->
            [BaseConfig("checkout_with_acr") EXCEPT !.usesACR = TRUE, !.requiresCorrelator = TRUE]
       [] op = "telenor-digi" ->
            [BaseConfig("checkout_or_api") EXCEPT !.requiresCorrelator = TRUE]
       [] op = "zain-kw" -> [BaseConfig("checkout_only") EXCEPT !.statusResponse = "SUCCESS"]
       [] op = "zain-bh" -> BaseConfig("pin_api_allowed")
       [] op = "axiata-lk" ->
            [BaseConfig("checkout_async") EXCEPT !.asyncResponse = TRUE,
                                                 !.requiresTransactionId = TRUE]
       [] op = "mobily-sa" ->
            [BaseConfig("pin_with_fraud_prevention") EXCEPT !.requiresFraudToken = TRUE,
                                                            !.noDeleteAPI = TRUE]
       [] op = "ooredoo-kw" -> [BaseConfig("checkout_or_pin") EXCEPT !.requiresAmount = TRUE]
       [] op = "stc-kw" -> BaseConfig("checkout_only")
       [] op = "etisalat-ae" -> BaseConfig("checkout_only")
       [] op = "9mobile-ng" -> BaseConfig("checkout")]

Operators == DOMAIN operatorConfigs
UnknownOperator == "no-such-operator"

Known(op) == op \in Operators

\* String.prototype.includes('checkout') on the flow name
FlowIncludesCheckout(flow) ==
  flow \in {"checkout", "checkout_only", "checkout_async", "checkout_with_acr",
            "checkout_or_pin", "checkout_or_api"}

isUKOperator(op) == op \in {"vodafone-uk", "three-uk", "o2-uk", "ee-uk"}

\* operator.startsWith('zain-')
StartsWithZain(op) == op \in {"zain-kw", "zain-sa", "zain-bh", "zain-jo", "zain-iq", "zain-sd"}

\* CheckoutFlow.supportsCheckout, FlowManager.supportsCheckout
supportsCheckout(op) == Known(op) /\ FlowIncludesCheckout(operatorConfigs[op].flow)

\* the PIN API taken as unsupported by the operators that offer it beside the checkout
supportsPINAPINarrow(op) ==
  /\ Known(op)
  /\ operatorConfigs[op].flow \in {"pin_api_allowed", "pin_with_fraud_prevention"}

\* SLAClient.supportsPINAPI
supportsPINAPI(op) ==
  /\ Known(op)
  /\ operatorConfigs[op].flow \in {"pin_api_allowed", "checkout_or_pin",
                                   "pin_with_fraud_prevention", "checkout_or_api"}

\* ------------------------------------------------------------------------
\* Time-to-live windows, in milliseconds of Date.now()
\* ------------------------------------------------------------------------
PIN_TTL == 120 * 1000
MAX_PIN_ATTEMPTS == 3
CHECKOUT_TTL == 10 * 60 * 1000
FLOW_TTL == 30 * 60 * 1000


\* ------------------------------------------------------------------------
\* State
\* ------------------------------------------------------------------------
VARIABLES
  now,           \* Date.now()
  ticks,         \* number of clock advances so far
  environment,   \* SLAClient.environment
  slaClient,     \* the gateway client handed to the constructors: the SLAClient,
                 \* or a stand-in whose methods answer without checks of their own
  acrMappings,   \* SLAClient.acrMappings: uuid -> anonymous reference
  pinHeap,       \* the PIN metadata objects created so far (index = object identity)
  activePINs,    \* PINFlow.activePINs: key -> identity of the stored object, 0 = no entry
  pendingCheckouts, \* the checkout sessions created so far (index = session id);
                 \* stored: the entry is in CheckoutFlow.pendingCheckouts;
                 \* timer: its cleanup timeout is still pending
  activeFlows,   \* FlowManager.activeFlows: refKey -> flow reference
  flowTimers,    \* the pending cleanup timeouts of flow references
  webhookCallbacks, \* WebhookHandler.webhookCallbacks: the keys with a callback
  delivered,     \* bag of the notifications handed to processWebhook
  invocations,   \* bag of the callback invocations <<callback key, notification>>
  processed,     \* the body last handed to ResponseHandler.processResponse, the
                 \* operator it was handed with, and the value returned
  webhookHistory, \* WebhookHandler.webhookHistory
  received,      \* number of entries handed to storeWebhookHistory so far
  subscriptions, \* SubscriptionManager.subscriptions: uuid -> subscription
  subscriptionsByMSISDN, \* SubscriptionManager.subscriptionsByMSISDN
  calls,         \* per slot, the handler suspended at an await (or none)
  requests,      \* bag of the requests handed to the HTTP client
  last           \* the handler step just taken and how it ended

clockVars == <<now, ticks>>
clientVars == <<environment, slaClient, acrMappings>>
pinVars == <<pinHeap, activePINs>>
flowVars == <<activeFlows, flowTimers>>
hookVars == <<webhookCallbacks, delivered, invocations>>
historyVars == <<webhookHistory, received>>
subscriptionVars == <<subscriptions, subscriptionsByMSISDN>>
storeVars == <<historyVars, subscriptionVars>>
vars == <<now, ticks, environment, slaClient, acrMappings, pinHeap, activePINs, pendingCheckouts, activeFlows,
          flowTimers, webhookCallbacks, delivered, invocations, processed, webhookHistory,
          received, subscriptions, subscriptionsByMSISDN, calls, requests, last>>

\* the clients the flows can be constructed with: the SLAClient, or an object
\* with the same methods and no checks in them
Clients == {"SLAClient", "stand-in"}

Msisdns == {"97312345678"}
PinOps == {"zain-bh"}
PinKeys == Operators \X Msisdns

NoValue == "undefined"
PinValues == {"good", "bad"}

\* a webhook notification: operator is the operator named in the body, ok tells
\* a success body from an error body, type and status are the event type and the
\* transaction status, correlator and transaction_id the correlation keys
Notification(operator, ok, type, status, correlator, transaction_id) ==
  [operator |-> operator, ok |-> ok, type |-> type, status |-> status,
   correlator |-> correlator, transaction_id |-> transaction_id]

NoNotification == Notification("", FALSE, "", "", "", "")

NoCall == [kind |-> "none", op |-> "", key |-> "", obj |-> 0, accept |-> FALSE]

Suspended(kind, op, key, obj, accept) ==
  [kind |-> kind, op |-> op, key |-> key, obj |-> obj, accept |-> accept]

\* a new invocation takes the lowest free slot
Free(c) ==
  /\ calls[c].kind = "none"
  /\ \A d \in CallIds : d < c => calls[d].kind # "none"

\* kind: the handler; phase: "start" (entry to first await or end) or "return"
\* (from the gateway's answer to the end); outcome: the value returned or error
\* thrown, "await" when the step ends suspended at the gateway; obj: the object
\* the handler holds; sent: the step handed a request to the HTTP client
Step(kind, phase, op, key, obj, outcome, sent) ==
  [kind |-> kind, phase |-> phase, op |-> op, key |-> key, obj |-> obj,
   answer |-> "", outcome |-> outcome, sent |-> sent, note |-> NoNotification,
   url |-> NoValue]

\* the step that resumes a handler with the gateway's answer
Returned(kind, op, key, obj, answer, outcome) ==
  [kind |-> kind, phase |-> "return", op |-> op, key |-> key, obj |-> obj,
   answer |-> answer, outcome |-> outcome, sent |-> FALSE, note |-> NoNotification,
   url |-> NoValue]

NoStep == Step("none", "", "", "", 0, "", FALSE)

\* key: the msisdn or token the request is about; obj: the PIN object or
\* checkout session it was built from (0 = none)
Request(endpoint, op, key, obj) == [endpoint |-> endpoint, op |-> op, key |-> key, obj |-> obj]

\* the request posted a second time
SendTwice(r) == requests' = requests (+) SetToBag({r}) (+) SetToBag({r})

\* this.httpClient.post(url, null), once
Send(r) == requests' = requests (+) SetToBag({r})

CanSend == BagCardinality(requests) < MaxRequests

\* ------------------------------------------------------------------------
\* SLAClient: the synchronous part of a gateway call, up to the HTTP request.
\* The value is "ok" (the request goes out) or the error thrown before it.
\* ------------------------------------------------------------------------

\* SLAClient.enrichParameters
enrichParameters(op, hasAmount) ==
  IF operatorConfigs[op].requiresAmount /\ ~hasAmount THEN "AMOUNT_REQUIRED" ELSE "ok"

\* SLAClient.makeRequest, before the HTTP request
makeRequest(op, hasAmount) ==
  IF ~Known(op) THEN "UNKNOWN_OPERATOR" ELSE enrichParameters(op, hasAmount)

\* the pin that enrichParameters puts on the wire
WirePin(env, pin) == IF env = "sandbox" /\ pin # NoValue THEN "000000" ELSE pin

\* the pin the upstream platform accepts: the fixed sandbox pin, or the one it sent out
AcceptedPin(env) == IF env = "sandbox" THEN "000000" ELSE "good"

\* SLAClient.generatePIN
generatePIN(op, p) ==
  IF ~supportsPINAPI(op) THEN "PIN_NOT_SUPPORTED"
  ELSE IF operatorConfigs[op].requiresAmount /\ ~p.amount THEN "AMOUNT_REQUIRED"
  ELSE IF operatorConfigs[op].requiresFraudToken /\ ~p.fraud_token THEN "FRAUD_TOKEN_REQUIRED"
  ELSE makeRequest(op, p.amount)

\* SLAClient.createSubscription; p: msisdn, pin, token (msisdn starts with TOKEN:),
\* campaign (campaign and merchant are given), amount
createSubscription(op, p) ==
  LET flow == operatorConfigs[op].flow
      needMsisdn == ~p.token /\ flow \notin {"checkout_only", "checkout_async"}
      needPin == needMsisdn /\ ~FlowIncludesCheckout(flow)
  IN  IF ~p.campaign THEN "MISSING_PARAMETER"
      ELSE IF needMsisdn /\ p.msisdn = NoValue THEN "MISSING_PARAMETER"
      ELSE IF needPin /\ p.pin = NoValue THEN "MISSING_PARAMETER"
      ELSE IF isUKOperator(op) /\ ~p.token THEN "UK_REQUIRES_TOKEN"
      ELSE makeRequest(op, p.amount)

\* SLAClient.charge; p: msisdn, pin, token, campaign, amount (amount and currency)
charge(op, p) ==
  IF ~p.campaign \/ ~p.amount THEN "MISSING_PARAMETER"
  ELSE IF ~p.token /\ p.msisdn = NoValue THEN "MISSING_PARAMETER"
  ELSE IF ~p.token /\ p.pin = NoValue /\ operatorConfigs[op].flow # "checkout_only"
    THEN "MISSING_PARAMETER"
  ELSE makeRequest(op, p.amount)

\* SLAClient.sendSMS
sendSMS(op, p) ==
  IF operatorConfigs[op].noSMS THEN "SMS_NOT_SUPPORTED" ELSE makeRequest(op, p.amount)

\* what the await of an HTTP request can give: a body {success: ...}, a body
\* {error: ...}, or a rejection (transport failure or HTTP error status)
Answers(accept) == IF accept THEN {"success", "error", "throw"} ELSE {"error", "throw"}

\* the gateway hands back the upstream body as it is, with a field success or
\* error and no field data
ResponseHasData(answer) == FALSE

\* ------------------------------------------------------------------------
\* PINFlow
\* ------------------------------------------------------------------------
PinKey(op, msisdn) == <<op, msisdn>>

\* PINFlow.getPINMetadata
getPINMetadata(msisdn, op) ==
  IF PinKey(op, msisdn) \in DOMAIN activePINs THEN activePINs[PinKey(op, msisdn)] ELSE 0

\* the validity window counted twice
PinExpiredLate(t, expiresAt) == t > expiresAt + PIN_TTL

\* Date.now() > pinMeta.expiresAt
PinExpired(t, expiresAt) == t > expiresAt

\* one attempt too many let through
AttemptsExceededLate(attempts) == attempts > MAX_PIN_ATTEMPTS + 1

\* pinMeta.attempts > 3, after the increment
AttemptsExceeded(attempts) == attempts > MAX_PIN_ATTEMPTS

\* the increment forgotten
IncrementAttemptsLost(attempts) == attempts

\* pinMeta.attempts++, on the object the map holds
IncrementAttempts(attempts) == attempts + 1

\* PINFlow.generateAndSendPIN, the parameters it builds and the checks made
\* before the HTTP request: "ok" or the error thrown; the amount and the PIN
\* API support are checked by this.slaClient.generatePIN alone
generateAndSendPIN(op, p) ==
  LET pinParams == [p EXCEPT !.amount = (op = "ooredoo-kw" /\ p.amount)]
  IN  IF op = "mobily-sa" /\ ~p.fraud_token THEN "FRAUD_TOKEN_REQUIRED"
      ELSE IF slaClient # "SLAClient" THEN "ok"
      ELSE generatePIN(op, pinParams)

\* PINFlow.generateAndSendPIN, up to the await of slaClient.generatePIN
GeneratePINStart(c, op, p) ==
  /\ Free(c)
  /\ LET err == generateAndSendPIN(op, p)
     IN  IF err # "ok"
         THEN /\ last' = Step("generatePIN", "start", op, p.msisdn, 0, err, FALSE)
              /\ UNCHANGED <<calls, requests>>
         ELSE /\ CanSend
              /\ Len(pinHeap) < MaxIssues
              /\ calls' = [calls EXCEPT ![c] = Suspended("generatePIN", op, p.msisdn, 0, TRUE)]
              /\ Send(Request("pin", op, p.msisdn, 0))
              /\ last' = Step("generatePIN", "start", op, p.msisdn, 0, "await", TRUE)
  /\ UNCHANGED <<clockVars, clientVars, processed, storeVars, pinVars, pendingCheckouts, flowVars, hookVars>>

\* the metadata stored with the time of issue as its expiry
storePINMetadataNoWindow(msisdn, op, t) ==
  /\ pinHeap' = Append(pinHeap, [sentAt |-> t, expiresAt |-> t, attempts |-> 0])
  /\ activePINs' = [activePINs EXCEPT ![PinKey(op, msisdn)] = Len(pinHeap) + 1]

\* PINFlow.storePINMetadata
storePINMetadata(msisdn, op, t) ==
  /\ pinHeap' = Append(pinHeap, [sentAt |-> t, expiresAt |-> t + PIN_TTL, attempts |-> 0])
  /\ activePINs' = [activePINs EXCEPT ![PinKey(op, msisdn)] = Len(pinHeap) + 1]

\* PINFlow.generateAndSendPIN, from the gateway's answer on
GeneratePINReturn(c, answer) ==
  /\ calls[c].kind = "generatePIN"
  /\ answer \in Answers(calls[c].accept)
  /\ LET op == calls[c].op
         msisdn == calls[c].key
         ended(outcome) == Returned("generatePIN", op, msisdn, 0, answer, outcome)
     IN  CASE answer = "success" ->
                /\ storePINMetadata(msisdn, op, now)
                /\ last' = ended("RESPONSE_SUCCESS")
           [] answer = "error" ->
                /\ last' = ended("RESPONSE_ERROR")
                /\ UNCHANGED pinVars
           [] answer = "throw" ->
                /\ last' = ended("GATEWAY_ERROR")
                /\ UNCHANGED pinVars
  /\ calls' = [calls EXCEPT ![c] = NoCall]
  /\ UNCHANGED <<clockVars, clientVars, processed, storeVars, requests, pendingCheckouts, flowVars, hookVars>>

\* PINFlow.completeSubscriptionWithPIN, up to the await of slaClient.createSubscription
CompletePINStart(c, op, p) ==
  /\ Free(c)
  /\ LET key == PinKey(op, p.msisdn)
         pinMeta == getPINMetadata(p.msisdn, op)
         ended(outcome) == Step("completePIN", "start", op, p.msisdn, pinMeta, outcome, FALSE)
     IN  IF pinMeta = 0
         THEN /\ last' = ended("NO_PIN_REQUEST")
              /\ UNCHANGED <<pinVars, calls, requests>>
         ELSE IF PinExpired(now, pinHeap[pinMeta].expiresAt)
         THEN /\ activePINs' = [activePINs EXCEPT ![key] = 0]
              /\ last' = ended("PIN_EXPIRED")
              /\ UNCHANGED <<pinHeap, calls, requests>>
         ELSE
           LET attempts == IncrementAttempts(pinHeap[pinMeta].attempts)
               err == createSubscription(op, [msisdn |-> p.msisdn, pin |-> p.pin,
                                              token |-> FALSE, campaign |-> p.campaign,
                                              amount |-> FALSE])
           IN  /\ pinHeap' = [pinHeap EXCEPT ![pinMeta].attempts = attempts]
               /\ IF AttemptsExceeded(attempts)
                  THEN /\ activePINs' = [activePINs EXCEPT ![key] = 0]
                       /\ last' = ended("MAX_ATTEMPTS_EXCEEDED")
                       /\ UNCHANGED <<calls, requests>>
                  ELSE IF err # "ok"
                  THEN \* the catch block: updatePINMetadata, then rethrow
                       /\ activePINs' = [activePINs EXCEPT ![key] = pinMeta]
                       /\ last' = ended(err)
                       /\ UNCHANGED <<calls, requests>>
                  ELSE /\ CanSend
                       /\ calls' = [calls EXCEPT ![c] =
                                      Suspended("completePIN", op, p.msisdn, pinMeta,
                                                WirePin(environment, p.pin) =
                                                  AcceptedPin(environment))]
                       /\ Send(Request("subscription/create", op, p.msisdn, pinMeta))
                       /\ last' = Step("completePIN", "start", op, p.msisdn, pinMeta,
                                       "await", TRUE)
                       /\ UNCHANGED activePINs
  /\ UNCHANGED <<clockVars, clientVars, processed, storeVars, pendingCheckouts, flowVars, hookVars>>

\* PINFlow.completeSubscriptionWithPIN, from the gateway's answer on
CompletePINReturn(c, answer) ==
  /\ calls[c].kind = "completePIN"
  /\ answer \in Answers(calls[c].accept)
  /\ LET op == calls[c].op
         msisdn == calls[c].key
         pinMeta == calls[c].obj
         key == PinKey(op, msisdn)
         ended(outcome) == Returned("completePIN", op, msisdn, pinMeta, answer, outcome)
     IN  CASE answer = "success" ->
                IF operatorConfigs[op].noSMS
                THEN /\ activePINs' = [activePINs EXCEPT ![key] = 0]
                     /\ last' = ended("RESPONSE_SUCCESS")
                ELSE IF ~ResponseHasData(answer)
                THEN \* clearPINMetadata; TypeError reading response.data.uuid;
                     \* the catch block: updatePINMetadata, then rethrow
                     /\ activePINs' = [activePINs EXCEPT ![key] = pinMeta]
                     /\ last' = ended("TYPE_ERROR")
                ELSE /\ activePINs' = [activePINs EXCEPT ![key] = 0]
                     /\ last' = ended("RESPONSE_SUCCESS")
           [] answer = "error" ->
                /\ last' = ended("RESPONSE_ERROR")
                /\ UNCHANGED activePINs
           [] answer = "throw" ->
                /\ activePINs' = [activePINs EXCEPT ![key] = pinMeta]
                /\ last' = ended("GATEWAY_ERROR")
  /\ calls' = [calls EXCEPT ![c] = NoCall]
  /\ UNCHANGED <<clockVars, clientVars, processed, storeVars, pinHeap, requests, pendingCheckouts, flowVars,
                 hookVars>>

\* PINFlow.completeChargeWithPIN, up to the await of slaClient.charge
CompleteChargeStart(c, op, p) ==
  /\ Free(c)
  /\ LET pinMeta == getPINMetadata(p.msisdn, op)
         ended(outcome) == Step("completeCharge", "start", op, p.msisdn, pinMeta, outcome, FALSE)
         err == charge(op, [msisdn |-> p.msisdn, pin |-> p.pin, token |-> FALSE,
                            campaign |-> p.campaign, amount |-> p.amount])
     IN  IF pinMeta = 0 \/ PinExpired(now, pinHeap[pinMeta].expiresAt)
         THEN /\ last' = ended("PIN_EXPIRED_OR_NOT_FOUND")
              /\ UNCHANGED <<calls, requests>>
         ELSE IF err # "ok"
         THEN /\ last' = ended(err)
              /\ UNCHANGED <<calls, requests>>
         ELSE /\ CanSend
              /\ calls' = [calls EXCEPT ![c] =
                             Suspended("completeCharge", op, p.msisdn, pinMeta,
                                       WirePin(environment, p.pin) = AcceptedPin(environment))]
              /\ Send(Request("charge", op, p.msisdn, pinMeta))
              /\ last' = Step("completeCharge", "start", op, p.msisdn, pinMeta, "await", TRUE)
  /\ UNCHANGED <<clockVars, clientVars, processed, storeVars, pinVars, pendingCheckouts,
                 flowVars, hookVars>>

\* PINFlow.completeChargeWithPIN, from the gateway's answer on
CompleteChargeReturn(c, answer) ==
  /\ calls[c].kind = "completeCharge"
  /\ answer \in Answers(calls[c].accept)
  /\ LET op == calls[c].op
         msisdn == calls[c].key
         ended(outcome) == Returned("completeCharge", op, msisdn, calls[c].obj, answer, outcome)
     IN  CASE answer = "success" ->
                /\ activePINs' = [activePINs EXCEPT ![PinKey(op, msisdn)] = 0]
                /\ last' = ended("RESPONSE_SUCCESS")
           [] answer = "error" ->
                /\ last' = ended("RESPONSE_ERROR")
                /\ UNCHANGED activePINs
           [] answer = "throw" ->
                /\ last' = ended("GATEWAY_ERROR")
                /\ UNCHANGED activePINs
  /\ calls' = [calls EXCEPT ![c] = NoCall]
  /\ UNCHANGED <<clockVars, clientVars, processed, storeVars, pinHeap, requests,
                 pendingCheckouts, flowVars, hookVars>>

\* PINFlow.cleanupExpiredPINs
CleanupExpiredPINs ==
  /\ activePINs' = [k \in PinKeys |->
                      IF activePINs[k] # 0 /\ pinHeap[activePINs[k]].expiresAt < now
                      THEN 0 ELSE activePINs[k]]
  /\ last' = Step("cleanupExpiredPINs", "start", "", "", 0, "done", FALSE)
  /\ UNCHANGED <<clockVars, clientVars, processed, storeVars, pinHeap, calls, requests, pendingCheckouts,
                 flowVars, hookVars>>

\* ------------------------------------------------------------------------
\* CheckoutFlow
\* ------------------------------------------------------------------------
SessionIds == 1..MaxSessions

\* the sessionId string of the n-th session created
SessionKey(sessionId) == "CHECKOUT_" \o ToString(sessionId)

\* SLAClient.generateCorrelator / generateTransactionId: a value not handed out
\* before; n is the number of the session it is generated for
GeneratedKey(n) == "GEN_" \o ToString(n)

\* CheckoutFlow.getCheckoutSession: the session the Map holds under the id, 0 = undefined
getCheckoutSession(sessionId) ==
  IF sessionId \in 1..Len(pendingCheckouts) /\ pendingCheckouts[sessionId].stored
  THEN sessionId ELSE 0

\* the delete left out
clearCheckoutSessionKept(sessionId) == pendingCheckouts

\* CheckoutFlow.clearCheckoutSession: the Map after the delete
clearCheckoutSession(sessionId) == [pendingCheckouts EXCEPT ![sessionId].stored = FALSE]

\* CheckoutFlow.createCheckoutSession: the session and its cleanup timeout;
\* completed is history: a completion of the session has returned upstream success
createCheckoutSession(op, p, t) ==
  pendingCheckouts' = Append(pendingCheckouts,
                             [operator |-> op, campaign |-> p.campaign, amount |-> p.amount,
                              expiresAt |-> t + CHECKOUT_TTL, stored |-> TRUE,
                              timer |-> TRUE, completed |-> FALSE])

\* the setTimeout callback of createCheckoutSession
SessionTimerFire(sessionId) ==
  /\ sessionId \in 1..Len(pendingCheckouts)
  /\ pendingCheckouts[sessionId].timer
  /\ now >= pendingCheckouts[sessionId].expiresAt
  /\ pendingCheckouts' = [pendingCheckouts EXCEPT ![sessionId].stored = FALSE,
                                                  ![sessionId].timer = FALSE]
  /\ last' = Step("sessionTimeout", "start", "", "", sessionId, "done", FALSE)
  /\ UNCHANGED <<clockVars, clientVars, processed, storeVars, pinVars, flowVars, hookVars, calls, requests>>

\* CheckoutFlow.executeSubscriptionCheckout: the checkout variant that runs
executeSubscriptionCheckout(op) ==
  IF ~supportsCheckout(op) THEN "CHECKOUT_NOT_SUPPORTED"
  ELSE IF isUKOperator(op) THEN "uk"
  ELSE IF op = "etisalat-ae" THEN "direct"
  ELSE IF op = "axiata-lk" THEN "axiata"
  ELSE IF operatorConfigs[op].usesACR THEN "acr"
  ELSE "standard"

\* the completion requests handed to the HTTP client for a checkout session
SessionRequests(sessionId) ==
  LET S == {r \in DOMAIN requests : r.key = "TOKEN" /\ r.obj = sessionId}
  IN  BagCardinality([r \in S |-> requests[r]])

\* completeCheckoutSubscription and completeCheckoutCharge from the session
\* lookup to the await of the gateway call; kind names the entry point, key the
\* flow reference key it was entered with ("" = none), err is what the gateway
\* call throws before its HTTP request ("ok" if nothing)
CompletionStart(c, kind, awaited, endpoint, op, key, sessionId, err) ==
  LET session == getCheckoutSession(sessionId)
      ended(outcome) == Step(kind, "start", op, key, sessionId, outcome, FALSE)
  IN  IF session = 0
      THEN /\ last' = ended("SESSION_NOT_FOUND")
           /\ UNCHANGED <<calls, requests>>
      ELSE IF err # "ok"
      THEN /\ last' = ended(err)
           /\ UNCHANGED <<calls, requests>>
      ELSE /\ SessionRequests(sessionId) < MaxCompletions
           /\ calls' = [calls EXCEPT ![c] = Suspended(awaited, op, key, sessionId, TRUE)]
           /\ Send(Request(endpoint, op, "TOKEN", sessionId))
           /\ last' = Step(kind, "start", op, key, sessionId, "await", TRUE)

\* the parameters completeCheckoutSubscription builds from the session
SubscriptionParamsOf(sessionId) ==
  [msisdn |-> "TOKEN", pin |-> NoValue, token |-> TRUE,
   campaign |-> getCheckoutSession(sessionId) # 0 /\ pendingCheckouts[sessionId].campaign,
   amount |-> FALSE]

\* the parameters completeCheckoutCharge builds from the session
ChargeParamsOf(sessionId) ==
  [msisdn |-> "TOKEN", pin |-> NoValue, token |-> TRUE,
   campaign |-> getCheckoutSession(sessionId) # 0 /\ pendingCheckouts[sessionId].campaign,
   amount |-> getCheckoutSession(sessionId) # 0 /\ pendingCheckouts[sessionId].amount]

\* CheckoutFlow.completeCheckoutSubscription, up to the await of slaClient.createSubscription
CompleteCheckoutSubscriptionStart(c, op, sessionId) ==
  /\ Free(c)
  /\ CompletionStart(c, "completeCheckoutSubscription", "completeCheckoutSubscription",
                     "subscription/create", op, "", sessionId,
                     createSubscription(op, SubscriptionParamsOf(sessionId)))
  /\ UNCHANGED <<clockVars, clientVars, processed, storeVars, pinVars, pendingCheckouts, flowVars, hookVars>>

\* CheckoutFlow.completeCheckoutSubscription, from the gateway's answer on
CompleteCheckoutSubscriptionReturn(c, answer) ==
  /\ calls[c].kind = "completeCheckoutSubscription"
  /\ answer \in Answers(calls[c].accept)
  /\ LET op == calls[c].op
         sessionId == calls[c].obj
         ended(outcome) == Returned("completeCheckoutSubscription", op, "", sessionId,
                                    answer, outcome)
         \* after clearCheckoutSession: response.data.msisdn is read for the ACR
         \* check and for the welcome SMS
         outcome == IF (operatorConfigs[op].usesACR \/ ~operatorConfigs[op].noSMS)
                       /\ ~ResponseHasData(answer)
                    THEN "TYPE_ERROR" ELSE "RESPONSE_SUCCESS"
     IN  CASE answer = "success" ->
                /\ pendingCheckouts' =
                     [clearCheckoutSession(sessionId) EXCEPT
                        ![sessionId].completed = @ \/ outcome = "RESPONSE_SUCCESS"]
                /\ last' = ended(outcome)
           [] answer = "error" ->
                /\ last' = ended("RESPONSE_ERROR")
                /\ UNCHANGED pendingCheckouts
           [] answer = "throw" ->
                /\ last' = ended("GATEWAY_ERROR")
                /\ UNCHANGED pendingCheckouts
  /\ calls' = [calls EXCEPT ![c] = NoCall]
  /\ UNCHANGED <<clockVars, clientVars, processed, storeVars, pinVars, flowVars, hookVars, requests>>

\* CheckoutFlow.completeCheckoutCharge, up to the await of slaClient.charge
CompleteCheckoutChargeStart(c, op, sessionId) ==
  /\ Free(c)
  /\ CompletionStart(c, "completeCheckoutCharge", "completeCheckoutCharge", "charge",
                     op, "", sessionId, charge(op, ChargeParamsOf(sessionId)))
  /\ UNCHANGED <<clockVars, clientVars, processed, storeVars, pinVars, pendingCheckouts, flowVars, hookVars>>

\* CheckoutFlow.completeCheckoutCharge, from the gateway's answer on
CompleteCheckoutChargeReturn(c, answer) ==
  /\ calls[c].kind = "completeCheckoutCharge"
  /\ answer \in Answers(calls[c].accept)
  /\ LET op == calls[c].op
         sessionId == calls[c].obj
         ended(outcome) == Returned("completeCheckoutCharge", op, "", sessionId,
                                    answer, outcome)
     IN  CASE answer = "success" ->
                /\ pendingCheckouts' =
                     [clearCheckoutSession(sessionId) EXCEPT ![sessionId].completed = TRUE]
                /\ last' = ended("RESPONSE_SUCCESS")
           [] answer = "error" ->
                /\ last' = ended("RESPONSE_ERROR")
                /\ UNCHANGED pendingCheckouts
           [] answer = "throw" ->
                /\ last' = ended("GATEWAY_ERROR")
                /\ UNCHANGED pendingCheckouts
  /\ calls' = [calls EXCEPT ![c] = NoCall]
  /\ UNCHANGED <<clockVars, clientVars, processed, storeVars, pinVars, flowVars, hookVars, requests>>

\* ------------------------------------------------------------------------
\* FlowManager
\* ------------------------------------------------------------------------
RefKey(op, key) == <<op, key>>

\* Map.set and Map.delete on a store kept as a function
Put(f, k, v) == [x \in DOMAIN f \cup {k} |-> IF x = k THEN v ELSE f[x]]
Remove(f, k) == [x \in DOMAIN f \ {k} |-> f[x]]

\* FlowManager.getFlowReference
getFlowReference(op, key) == RefKey(op, key) \in DOMAIN activeFlows

\* the delete left out
clearFlowReferenceKept(op, key) == activeFlows

\* FlowManager.clearFlowReference: the Map after the delete
clearFlowReference(op, key) == Remove(activeFlows, RefKey(op, key))

\* FlowManager.storeFlowReference: the entry and its cleanup timeout
storeFlowReference(op, key, type, sessionId, t) ==
  /\ activeFlows' = Put(activeFlows, RefKey(op, key),
                        [type |-> type, sessionId |-> sessionId, createdAt |-> t,
                         expiresAt |-> t + FLOW_TTL])
  /\ flowTimers' = flowTimers \cup {[refKey |-> RefKey(op, key), fireAt |-> t + FLOW_TTL]}

\* the setTimeout callback of storeFlowReference
FlowTimerFire(timer) ==
  /\ timer \in flowTimers
  /\ now >= timer.fireAt
  /\ activeFlows' = Remove(activeFlows, timer.refKey)
  /\ flowTimers' = flowTimers \ {timer}
  /\ last' = Step("flowTimeout", "start", timer.refKey[1], timer.refKey[2], 0, "done", FALSE)
  /\ UNCHANGED <<clockVars, clientVars, processed, storeVars, pinVars, pendingCheckouts, hookVars, calls, requests>>

\* what a flow handler of FlowManager decides: the checkout variant to run, "pin",
\* or the result it returns or error it throws at once; refType is the type of
\* the flow reference it stores ("" = none)
Route(variant, refType) == [variant |-> variant, refType |-> refType]

\* FlowManager.handleCheckoutOnly
handleCheckoutOnly(op) ==
  IF isUKOperator(op) THEN Route("uk", "uk_async")
  ELSE IF StartsWithZain(op) THEN Route(executeSubscriptionCheckout(op), "")
  ELSE IF op = "etisalat-ae" THEN Route("direct", "")
  ELSE IF op = "stc-kw" THEN Route("standard", "")
  ELSE Route(executeSubscriptionCheckout(op), "")

\* FlowManager.handleCheckoutWithACR
handleCheckoutWithACR(op) == Route("acr", "acr_checkout")

\* FlowManager.handlePINAllowed
handlePINAllowed(op, p) ==
  IF p.preferCheckout /\ supportsCheckout(op)
  THEN Route(executeSubscriptionCheckout(op), "")
  ELSE Route("pin", "")

\* the fraud token check left out
handleFraudPreventionFlowUnchecked(op, p) == Route("pin", "")

\* FlowManager.handleFraudPreventionFlow
handleFraudPreventionFlow(op, p) ==
  IF ~p.fraud_token THEN Route("LOAD_FRAUD_SCRIPT", "") ELSE Route("pin", "")

\* FlowManager.handleAsyncCheckout
handleAsyncCheckout(op) == Route("axiata", "axiata_async")

\* the amount asked for before the choice between checkout and PIN is made
handleCheckoutOrPINAmountFirst(op, p) ==
  IF ~p.amount THEN Route("AMOUNT_REQUIRED", "")
  ELSE IF p.useCheckout THEN Route(executeSubscriptionCheckout(op), "")
  ELSE Route("pin", "")

\* FlowManager.handleCheckoutOrPIN
handleCheckoutOrPIN(op, p) ==
  IF p.useCheckout THEN Route(executeSubscriptionCheckout(op), "")
  ELSE IF ~p.amount THEN Route("AMOUNT_REQUIRED", "")
  ELSE Route("pin", "")

\* FlowManager.handleCheckoutOrAPI
handleCheckoutOrAPI(op, p) ==
  IF p.useCheckout THEN Route(executeSubscriptionCheckout(op), "") ELSE Route("pin", "")

\* FlowManager.handleStandardCheckout
handleStandardCheckout(op) == Route(executeSubscriptionCheckout(op), "")

\* the switch of FlowManager.initiateSubscription on config.flow
FlowSwitch(op, p) ==
  LET flow == operatorConfigs[op].flow
  IN  CASE flow = "checkout_only" -> handleCheckoutOnly(op)
        [] flow = "checkout_with_acr" -> handleCheckoutWithACR(op)
        [] flow = "pin_api_allowed" -> handlePINAllowed(op, p)
        [] flow = "pin_with_fraud_prevention" -> handleFraudPreventionFlow(op, p)
        [] flow = "checkout_async" -> handleAsyncCheckout(op)
        [] flow = "checkout_or_pin" -> handleCheckoutOrPIN(op, p)
        [] flow = "checkout_or_api" -> handleCheckoutOrAPI(op, p)
        [] OTHER -> handleStandardCheckout(op)

\* the operator lookup left out: config.flow is read from undefined
initiateSubscriptionUnchecked(op, p) ==
  IF ~Known(op) THEN Route("TYPE_ERROR", "") ELSE FlowSwitch(op, p)

\* FlowManager.initiateSubscription: the operator lookup, then the switch
initiateSubscription(op, p) ==
  IF ~Known(op) THEN Route("UNKNOWN_OPERATOR", "") ELSE FlowSwitch(op, p)

\* PINFlow.executeSubscriptionFlow, the checks made before the HTTP request:
\* the fraud token is not passed on, the amount only for an operator that requires it
executeSubscriptionFlow(op, p) ==
  IF ~supportsPINAPI(op) THEN "PIN_NOT_SUPPORTED"
  ELSE generateAndSendPIN(op, [p EXCEPT !.fraud_token = FALSE,
                                        !.amount = operatorConfigs[op].requiresAmount /\ p.amount])

\* PINFlow.executeChargeFlow, the checks made before the HTTP request
executeChargeFlow(op, p) ==
  IF ~supportsPINAPI(op) THEN "PIN_NOT_SUPPORTED"
  ELSE generateAndSendPIN(op, [p EXCEPT !.fraud_token = FALSE])

\* a PIN flow entered through FlowManager, up to the await of slaClient.generatePIN
PINFlowStart(c, flowKind, kind, op, p, err) ==
  IF err # "ok"
  THEN /\ last' = Step(kind, "start", op, p.msisdn, 0, err, FALSE)
       /\ UNCHANGED <<calls, requests>>
  ELSE /\ CanSend
       /\ Len(pinHeap) < MaxIssues
       /\ calls' = [calls EXCEPT ![c] = Suspended(flowKind, op, p.msisdn, 0, TRUE)]
       /\ Send(Request("pin", op, p.msisdn, 0))
       /\ last' = Step(kind, "start", op, p.msisdn, 0, "await", TRUE)

\* a correlator or transaction id generated inside buildCheckoutUrl for the
\* n-th session: a value of its own, returned to nobody
GeneratedInUrl(n) == "GEN_URL_" \o ToString(n)

\* the supplied value passed on as it is
FillInNothing(supplied, n) == supplied

\* executeUKCheckout, executeACRCheckout, executeAxiataCheckout: a missing
\* correlator or transaction id is generated and assigned to the params
FillIn(supplied, n) == IF supplied = NoValue THEN GeneratedKey(n) ELSE supplied

\* SLAClient.buildCheckoutUrl: the correlator (the transaction id for the
\* Axiata variant) among the query parameters, given the one passed in
QueryKey(op, variant, passed, n) ==
  LET required == IF variant = "axiata" THEN operatorConfigs[op].requiresTransactionId
                  ELSE operatorConfigs[op].requiresCorrelator
  IN  IF passed # NoValue THEN passed
      ELSE IF required THEN GeneratedInUrl(n)
      ELSE NoValue

\* FlowManager.initiateSubscription
InitiateSubscription(c, op, p) ==
  /\ Free(c)
  /\ LET route == initiateSubscription(op, p)
         sessionId == Len(pendingCheckouts) + 1
         supplied == IF route.variant = "axiata" THEN p.transaction_id ELSE p.correlator
         \* executeUKCheckout, executeACRCheckout, executeAxiataCheckout fill in
         \* a missing correlator or transaction id
         key == IF route.variant \in {"uk", "acr", "axiata"}
                THEN FillIn(supplied, sessionId) ELSE supplied
         \* executeStandardCheckout passes no correlator to buildCheckoutUrl
         passed == IF route.variant = "standard" THEN NoValue ELSE key
     IN  CASE route.variant \in {"uk", "acr", "axiata", "standard"} ->
                /\ Len(pendingCheckouts) < MaxSessions
                /\ createCheckoutSession(op, p, now)
                /\ IF route.refType # ""
                   THEN storeFlowReference(op, key, route.refType, sessionId, now)
                   ELSE UNCHANGED flowVars
                /\ last' = [Step("initiateSubscription", "start", op, key, sessionId,
                                 "REDIRECT_TO_CHECKOUT", FALSE)
                              EXCEPT !.url = QueryKey(op, route.variant, passed, sessionId)]
                /\ UNCHANGED <<calls, requests>>
           [] route.variant = "direct" ->
                /\ last' = Step("initiateSubscription", "start", op, "", 0,
                                "IMMEDIATE_REDIRECT", FALSE)
                /\ UNCHANGED <<pendingCheckouts, flowVars, calls, requests>>
           [] route.variant = "pin" ->
                /\ PINFlowStart(c, "executeSubscriptionFlow", "initiateSubscription", op, p,
                                executeSubscriptionFlow(op, p))
                /\ UNCHANGED <<pendingCheckouts, flowVars>>
           [] OTHER ->
                /\ last' = Step("initiateSubscription", "start", op, "", 0,
                                route.variant, FALSE)
                /\ UNCHANGED <<pendingCheckouts, flowVars, calls, requests>>
  /\ UNCHANGED <<clockVars, clientVars, processed, storeVars, pinVars, hookVars>>

\* ------------------------------------------------------------------------
\* SubscriptionManager
\* ------------------------------------------------------------------------
\* the subscriptions stored under an msisdn
SubscriptionsOf(msisdn) ==
  IF msisdn \in DOMAIN subscriptionsByMSISDN THEN subscriptionsByMSISDN[msisdn] ELSE <<>>

LiveStatuses == {"ACTIVE", "FREE", "SUSPENDED"}

\* the lookup that takes no stored subscription for a suspended one
checkExistingSubscriptionUnsuspended(op, msisdn, campaign) ==
  \E i \in 1..Len(SubscriptionsOf(msisdn)) :
    LET sub == SubscriptionsOf(msisdn)[i]
    IN  sub.operator = op /\ sub.campaign = campaign /\ sub.status \in {"ACTIVE", "FREE"}

\* SubscriptionManager.checkExistingSubscription: a subscription was found
checkExistingSubscription(op, msisdn, campaign) ==
  \E i \in 1..Len(SubscriptionsOf(msisdn)) :
    LET sub == SubscriptionsOf(msisdn)[i]
    IN  sub.operator = op /\ sub.campaign = campaign /\ sub.status \in LiveStatuses

\* the subject identifiers a stored subscription can have: a phone number or
\* an anonymous reference (the strings that start with 'telenor-')
AnonymousReferences == {"telenor-TLN-MM:ref"}

\* SubscriptionManager.storeSubscription(operator, subscriptionData): data.status
\* is transaction.status of the data, data.campaign tells whether the data
\* carry the campaign of the request
StoreSubscription(op, data) ==
  /\ Cardinality(DOMAIN subscriptions \cup {data.uuid}) <= MaxSubscriptions
  /\ Len(SubscriptionsOf(data.msisdn)) < MaxSubscriptions
  /\ LET subscription ==
           [uuid |-> data.uuid, msisdn |-> data.msisdn, campaign |-> data.campaign,
            operator |-> op,
            status |-> IF data.status = NoValue THEN "ACTIVE" ELSE data.status,
            hasACR |-> data.msisdn \in AnonymousReferences]
     IN  /\ subscriptions' = (data.uuid :> subscription) @@ subscriptions
         /\ subscriptionsByMSISDN' =
              IF data.msisdn = NoValue THEN subscriptionsByMSISDN
              ELSE (data.msisdn :> Append(SubscriptionsOf(data.msisdn), subscription))
                     @@ subscriptionsByMSISDN
  /\ last' = Step("storeSubscription", "start", op, data.msisdn, 0, "stored", FALSE)
  /\ UNCHANGED <<clockVars, clientVars, processed, historyVars, pinVars, pendingCheckouts,
                 flowVars, hookVars, calls, requests>>

\* msisdn.startsWith('telenor-'), of the subject identifiers stored here
StartsWithTelenor(msisdn) == msisdn \in AnonymousReferences

Uuids == {"uuid-1", "uuid-2"}

\* SLAClient.handleResponse, the reference mapping: a success body of an
\* operator that uses anonymous references, whose msisdn is one, has it stored
\* under the uuid of the body
HandleResponseMapping(op, uuid, msisdn) ==
  /\ Known(op)
  /\ acrMappings' = IF operatorConfigs[op].usesACR /\ msisdn # NoValue /\ StartsWithTelenor(msisdn)
                    THEN Put(acrMappings, uuid, msisdn)
                    ELSE acrMappings
  /\ last' = Step("handleResponse", "start", op, uuid, 0, "done", FALSE)
  /\ UNCHANGED <<clockVars, environment, slaClient, processed, storeVars, pinVars,
                 pendingCheckouts, flowVars, hookVars, calls, requests>>

\* SLAClient.deleteSubscription, before the HTTP request: "ok" or the error thrown
deleteSubscription(op, p) ==
  IF operatorConfigs[op].noDeleteAPI THEN "DELETE_NOT_SUPPORTED"
  ELSE IF operatorConfigs[op].usesACR /\ p.uuid # NoValue /\ p.uuid \notin DOMAIN acrMappings
    THEN "ACR_NOT_FOUND"
  ELSE makeRequest(op, p.amount)

\* the msisdn of the parameters sent as it was given
DeleteSubjectAsGiven(op, p) == p.msisdn

\* SLAClient.deleteSubscription: params.msisdn = acr, the msisdn on the wire
DeleteSubject(op, p) ==
  IF operatorConfigs[op].usesACR /\ p.uuid # NoValue /\ p.uuid \in DOMAIN acrMappings
  THEN acrMappings[p.uuid]
  ELSE p.msisdn

\* SubscriptionManager.removeSubscription
removeSubscription(uuid) ==
  IF uuid \notin DOMAIN subscriptions
  THEN UNCHANGED subscriptionVars
  ELSE LET msisdn == subscriptions[uuid].msisdn
           Others(sub) == sub.uuid # uuid
           filtered == SelectSeq(SubscriptionsOf(msisdn), Others)
       IN  /\ subscriptions' = Remove(subscriptions, uuid)
           /\ subscriptionsByMSISDN' =
                IF msisdn = NoValue THEN subscriptionsByMSISDN
                ELSE IF Len(filtered) > 0 THEN Put(subscriptionsByMSISDN, msisdn, filtered)
                ELSE Remove(subscriptionsByMSISDN, msisdn)

\* SubscriptionManager.deleteSubscription, up to the await of
\* slaClient.deleteSubscription: the reference of the stored subscription is
\* put in params.msisdn, then the client does its own lookup
DeleteSubscriptionStart(c, op, p) ==
  /\ Free(c)
  /\ Known(op)
  /\ LET stored == p.uuid \in DOMAIN subscriptions
         q == IF operatorConfigs[op].usesACR /\ stored /\ subscriptions[p.uuid].hasACR
              THEN [p EXCEPT !.msisdn = subscriptions[p.uuid].msisdn]
              ELSE p
         err == deleteSubscription(op, q)
     IN  IF err # "ok"
         THEN /\ last' = Step("deleteSubscription", "start", op, p.uuid, 0, err, FALSE)
              /\ UNCHANGED <<calls, requests>>
         ELSE /\ CanSend
              /\ calls' = [calls EXCEPT ![c] = Suspended("deleteSubscription", op, p.uuid, 0, TRUE)]
              /\ Send(Request("subscription/delete", op, DeleteSubject(op, q), 0))
              /\ last' = Step("deleteSubscription", "start", op, p.uuid, 0, "await", TRUE)
  /\ UNCHANGED <<clockVars, clientVars, processed, storeVars, pinVars, pendingCheckouts,
                 flowVars, hookVars>>

\* SubscriptionManager.deleteSubscription, from the gateway's answer on: a
\* success body has the subscription removed from the store
DeleteSubscriptionReturn(c, answer) ==
  /\ calls[c].kind = "deleteSubscription"
  /\ answer \in Answers(calls[c].accept)
  /\ IF answer = "success" THEN removeSubscription(calls[c].key) ELSE UNCHANGED subscriptionVars
  /\ last' = Returned("deleteSubscription", calls[c].op, calls[c].key, 0, answer,
                      CASE answer = "success" -> "RESPONSE_SUCCESS"
                        [] answer = "error" -> "RESPONSE_ERROR"
                        [] answer = "throw" -> "GATEWAY_ERROR")
  /\ calls' = [calls EXCEPT ![c] = NoCall]
  /\ UNCHANGED <<clockVars, clientVars, processed, historyVars, pinVars, pendingCheckouts,
                 flowVars, hookVars, requests>>


\* the place in the by-msisdn list of the object that the by-uuid map holds:
\* storeSubscription pushes the object it puts in the map, so it is the last
\* entry of its uuid in the list of its msisdn; 0 when it has no msisdn
PositionOf(uuid) ==
  LET list == SubscriptionsOf(subscriptions[uuid].msisdn)
      hits == {i \in 1..Len(list) : list[i].uuid = uuid}
  IN  IF hits = {} THEN 0 ELSE CHOOSE i \in hits : \A j \in hits : j <= i

\* SubscriptionManager.updateSubscription(uuid, updates), updates naming a
\* status: Object.assign changes the one object that both indexes hold
UpdateSubscription(uuid, status) ==
  /\ IF uuid \in DOMAIN subscriptions
     THEN LET updated == [subscriptions[uuid] EXCEPT !.status = status]
              msisdn == updated.msisdn
              i == PositionOf(uuid)
          IN  /\ subscriptions' = [subscriptions EXCEPT ![uuid] = updated]
              /\ subscriptionsByMSISDN' =
                   IF i = 0 THEN subscriptionsByMSISDN
                   ELSE [subscriptionsByMSISDN EXCEPT ![msisdn][i] = updated]
     ELSE UNCHANGED subscriptionVars
  /\ last' = Step("updateSubscription", "start", "", uuid, 0,
                  IF uuid \in DOMAIN subscriptions THEN "updated" ELSE "NOT_FOUND", FALSE)
  /\ UNCHANGED <<clockVars, clientVars, processed, historyVars, pinVars, pendingCheckouts,
                 flowVars, hookVars, calls, requests>>

\* SubscriptionManager.removeSubscription(uuid)
RemoveSubscription(uuid) ==
  /\ removeSubscription(uuid)
  /\ last' = Step("removeSubscription", "start", "", uuid, 0,
                  IF uuid \in DOMAIN subscriptions THEN "removed" ELSE "NOT_FOUND", FALSE)
  /\ UNCHANGED <<clockVars, clientVars, processed, historyVars, pinVars, pendingCheckouts,
                 flowVars, hookVars, calls, requests>>


\* SubscriptionManager.createSubscription: the lookup, then
\* flowManager.initiateSubscription.  No result of initiateSubscription has a
\* data field, so the condition result.data?.uuid of the store that follows is
\* never met.
CreateSubscription(c, op, p) ==
  IF checkExistingSubscription(op, p.msisdn, p.campaign)
  THEN /\ last' = Step("createSubscription", "start", op, p.msisdn, 0, "ALREADY_EXISTS", FALSE)
       /\ UNCHANGED <<clockVars, clientVars, processed, storeVars, pinVars, pendingCheckouts,
                      flowVars, hookVars, calls, requests>>
  ELSE InitiateSubscription(c, op, p)

\* FlowManager.initiateCharge: the result thrown at once, or the flow entered
initiateCharge(op, p) ==
  IF ~Known(op) THEN "UNKNOWN_OPERATOR"
  ELSE IF operatorConfigs[op].noChargeAPI THEN "CHARGE_NOT_SUPPORTED"
  ELSE IF supportsPINAPI(op) /\ p.preferPIN THEN "pin"
  \* checkoutFlow.executeCheckoutCharge is not a function
  ELSE IF supportsCheckout(op) THEN "TYPE_ERROR"
  ELSE "NO_CHARGE_FLOW"

\* FlowManager.initiateCharge
InitiateCharge(c, op, p) ==
  /\ Free(c)
  /\ IF initiateCharge(op, p) = "pin"
     THEN PINFlowStart(c, "executeChargeFlow", "initiateCharge", op, p,
                       executeChargeFlow(op, p))
     ELSE /\ last' = Step("initiateCharge", "start", op, p.msisdn, 0,
                          initiateCharge(op, p), FALSE)
          /\ UNCHANGED <<calls, requests>>
  /\ UNCHANGED <<clockVars, clientVars, processed, storeVars, pinVars, pendingCheckouts, flowVars, hookVars>>

\* PINFlow.executeSubscriptionFlow and executeChargeFlow, from the gateway's
\* answer to generatePIN on
PINFlowReturn(c, answer) ==
  /\ calls[c].kind \in {"executeSubscriptionFlow", "executeChargeFlow"}
  /\ answer \in Answers(calls[c].accept)
  /\ LET op == calls[c].op
         msisdn == calls[c].key
         ended(outcome) == Returned(calls[c].kind, op, msisdn, 0, answer, outcome)
     IN  CASE answer = "success" ->
                /\ storePINMetadata(msisdn, op, now)
                /\ last' = ended("AWAIT_PIN_ENTRY")
           [] answer = "error" ->
                /\ last' = ended("PIN_GENERATION_FAILED")
                /\ UNCHANGED pinVars
           [] answer = "throw" ->
                /\ last' = ended("GATEWAY_ERROR")
                /\ UNCHANGED pinVars
  /\ calls' = [calls EXCEPT ![c] = NoCall]
  /\ UNCHANGED <<clockVars, clientVars, processed, storeVars, requests, pendingCheckouts, flowVars, hookVars>>

\* FlowManager.completeWithToken, up to the await of slaClient.createSubscription
CompleteWithTokenStart(c, op, correlator, sessionId) ==
  /\ Free(c)
  /\ LET key == IF correlator # NoValue THEN correlator ELSE SessionKey(sessionId)
     IN  IF ~getFlowReference(op, key)
         THEN /\ last' = Step("completeWithToken", "start", op, key, sessionId,
                              "NO_ACTIVE_FLOW", FALSE)
              /\ UNCHANGED <<calls, requests>>
         ELSE /\ CompletionStart(c, "completeWithToken", "completeWithToken",
                                 "subscription/create", op, key, sessionId,
                                 createSubscription(op, SubscriptionParamsOf(sessionId)))
  /\ UNCHANGED <<clockVars, clientVars, processed, storeVars, pinVars, pendingCheckouts, flowVars, hookVars>>

\* FlowManager.completeWithToken, from the gateway's answer on: the rest of
\* completeCheckoutSubscription, then the ACR fields read with result.data?.
\* and the result handed back; the flow reference is left as it is
CompleteWithTokenReturn(c, answer) ==
  /\ calls[c].kind = "completeWithToken"
  /\ answer \in Answers(calls[c].accept)
  /\ LET op == calls[c].op
         sessionId == calls[c].obj
         ended(outcome) == Returned("completeWithToken", op, calls[c].key, sessionId,
                                    answer, outcome)
         outcome == IF (operatorConfigs[op].usesACR \/ ~operatorConfigs[op].noSMS)
                       /\ ~ResponseHasData(answer)
                    THEN "TYPE_ERROR" ELSE "RESPONSE_SUCCESS"
     IN  CASE answer = "success" ->
                /\ pendingCheckouts' =
                     [clearCheckoutSession(sessionId) EXCEPT
                        ![sessionId].completed = @ \/ outcome = "RESPONSE_SUCCESS"]
                /\ last' = ended(outcome)
           [] answer = "error" ->
                /\ last' = ended("RESPONSE_ERROR")
                /\ UNCHANGED pendingCheckouts
           [] answer = "throw" ->
                /\ last' = ended("GATEWAY_ERROR")
                /\ UNCHANGED pendingCheckouts
  /\ calls' = [calls EXCEPT ![c] = NoCall]
  /\ UNCHANGED <<clockVars, clientVars, processed, storeVars, pinVars, flowVars, hookVars, requests>>

\* SLAClient.makeRequest called for an endpoint without checks of its own
\* (getSubscriptionStatus), up to the await of the HTTP request
MakeRequestStart(c, op) ==
  /\ Free(c)
  /\ IF makeRequest(op, FALSE) # "ok"
     THEN /\ last' = Step("makeRequest", "start", op, "", 0, makeRequest(op, FALSE), FALSE)
          /\ UNCHANGED <<calls, requests>>
     ELSE /\ CanSend
          /\ calls' = [calls EXCEPT ![c] = Suspended("makeRequest", op, "", 0, TRUE)]
          /\ Send(Request("subscription/status", op, "", 0))
          /\ last' = Step("makeRequest", "start", op, "", 0, "await", TRUE)
  /\ UNCHANGED <<clockVars, clientVars, processed, storeVars, pinVars, pendingCheckouts, flowVars, hookVars>>

\* SLAClient.makeRequest, from the HTTP answer on
MakeRequestReturn(c, answer) ==
  /\ calls[c].kind = "makeRequest"
  /\ answer \in Answers(calls[c].accept)
  /\ last' = Returned("makeRequest", calls[c].op, "", 0, answer,
                      CASE answer = "success" -> "RESPONSE_SUCCESS"
                        [] answer = "error" -> "RESPONSE_ERROR"
                        [] answer = "throw" -> "GATEWAY_ERROR")
  /\ calls' = [calls EXCEPT ![c] = NoCall]
  /\ UNCHANGED <<clockVars, clientVars, processed, storeVars, pinVars, pendingCheckouts, flowVars, hookVars,
                 requests>>

\* ------------------------------------------------------------------------
\* WebhookHandler.webhookHistory
\* ------------------------------------------------------------------------
HISTORY_LIMIT == 100

\* Array.prototype.shift: the array without its first element
shift(array) == SubSeq(array, 2, Len(array))

\* the push without the shift
storeWebhookHistoryUnbounded(history, entry) == Append(history, entry)

\* WebhookHandler.storeWebhookHistory: push, then drop the oldest entry when
\* there are more than 100
storeWebhookHistory(history, entry) ==
  LET pushed == Append(history, entry)
  IN  IF Len(pushed) > HISTORY_LIMIT THEN shift(pushed) ELSE pushed

\* WebhookHandler.storeWebhookHistory(operator, notification, result); the
\* entry is told from the others by its place in the order of arrival
StoreWebhookHistory(op) ==
  /\ received < MaxStored
  /\ received' = received + 1
  /\ webhookHistory' = storeWebhookHistory(webhookHistory, [arrival |-> received + 1])
  /\ last' = Step("storeWebhookHistory", "start", op, "", received + 1, "stored", FALSE)
  /\ UNCHANGED <<clockVars, clientVars, processed, subscriptionVars, pinVars,
                 pendingCheckouts, flowVars, hookVars, calls, requests>>

\* ------------------------------------------------------------------------
\* ResponseHandler.  A string that the code takes apart (an msisdn) is the
\* sequence of its characters.
\* ------------------------------------------------------------------------
Chars(n, ch) == [i \in 1..n |-> ch]

\* 'telenor-'
TelenorPrefix == <<"t", "e", "l", "e", "n", "o", "r", "-">>

\* String.prototype.startsWith
startsWith(str, prefix) ==
  Len(str) >= Len(prefix) /\ SubSeq(str, 1, Len(prefix)) = prefix

\* String.prototype.indexOf(':'), counted from 1; 0 = not found
IndexOfColon(str) ==
  IF \E i \in 1..Len(str) : str[i] = ":"
  THEN CHOOSE i \in 1..Len(str) : str[i] = ":" /\ \A j \in 1..(i - 1) : str[j] # ":"
  ELSE 0

\* String.prototype.substring(0, n)
substring(str, n) == SubSeq(str, 1, IF Len(str) < n THEN Len(str) ELSE n)

ACR_ID_LENGTH == 30

\* ResponseHandler.extractACRIdentifier: acr.split(':'), then the first 30
\* characters of parts[1], or the whole string when there is no colon
extractACRIdentifier(acr) ==
  LET i == IndexOfColon(acr)
      rest == SubSeq(acr, i + 1, Len(acr))
      j == IndexOfColon(rest)
      part == IF j = 0 THEN rest ELSE SubSeq(rest, 1, j - 1)
  IN  IF i = 0 THEN acr ELSE substring(part, ACR_ID_LENGTH)

\* a subject identifier that is absent (undefined, or the empty string: both
\* are falsy where the code tests it)
NoSubject == <<>>

\* an upstream body: ok tells {success: ...} from {error: ...}; status is
\* transaction.status and msisdn the subject identifier of the payload
\* error is the presence of {error: ...}, whose category and code are kept
Body(ok, status, msisdn) ==
  [ok |-> ok, error |-> ~ok, status |-> status, msisdn |-> msisdn,
   category |-> NoValue, code |-> NoValue]

\* a body {error: {category, code}}
ErrorBody(category, code) ==
  [Body(FALSE, NoValue, NoSubject) EXCEPT !.category = category, !.code = code]

\* a body with neither success nor error, and the status it carries at top
\* level ('PENDING' or anything else)
BareBody(status) == [Body(FALSE, status, NoSubject) EXCEPT !.error = FALSE]

\* ResponseHandler.isRetryableError
retryableErrors == {"3001", "3002", "5001", "8001"}

isRetryableAlways(code) == TRUE

isRetryableError(code) == code \in retryableErrors

\* the asynchronous marking of ResponseHandler.handleSuccessResponse: the
\* value of isAsync and of requiresWebhook
marksAsync(op) == operatorConfigs[op].asyncResponse \/ operatorConfigs[op].webhookBased

\* the status left as it came, and no side field
handleSuccessStatusKept(success, op) ==
  [status |-> success.status, originalStatus |-> NoValue]

\* ResponseHandler.handleSuccessResponse, the status translation: the status
\* of the normalized data and its field _originalStatus
handleSuccessStatus(success, op) ==
  IF operatorConfigs[op].statusResponse = "SUCCESS" /\ success.status = "SUCCESS"
  THEN [status |-> "CHARGED", originalStatus |-> "SUCCESS"]
  ELSE [status |-> success.status, originalStatus |-> NoValue]

\* ResponseHandler.handleSuccessResponse: the normalized value
handleSuccessResponse(success, op) ==
  LET translated == handleSuccessStatus(success, op)
      isACR == /\ operatorConfigs[op].usesACR
               /\ success.msisdn # NoSubject
               /\ startsWith(success.msisdn, TelenorPrefix)
  IN  [success |-> TRUE, operator |-> op, status |-> translated.status,
       originalStatus |-> translated.originalStatus, msisdn |-> success.msisdn,
       hasACR |-> isACR,
       acr |-> IF isACR THEN success.msisdn ELSE NoSubject,
       acrIdentifier |-> IF isACR THEN extractACRIdentifier(success.msisdn) ELSE NoSubject,
       isAsync |-> marksAsync(op), requiresWebhook |-> marksAsync(op),
       isRetryable |-> FALSE]

\* ResponseHandler.handleErrorResponse: the normalized value
handleErrorResponse(error, op) ==
  [success |-> FALSE, operator |-> op, status |-> NoValue, originalStatus |-> NoValue,
   msisdn |-> NoSubject, hasACR |-> FALSE, acr |-> NoSubject, acrIdentifier |-> NoSubject,
   isAsync |-> FALSE, requiresWebhook |-> FALSE,
   isRetryable |-> isRetryableError(error.code)]

\* ResponseHandler.handlePendingResponse: success is null (FALSE here), the
\* status is 'PENDING'
handlePendingResponse(response, op) ==
  [handleErrorResponse(response, op) EXCEPT !.status = "PENDING", !.isRetryable = FALSE]

\* the last return of processResponse: the response itself, which has none of
\* the fields of a normalized value
unnormalized(response, op) ==
  [handleErrorResponse(response, NoValue) EXCEPT !.status = response.status,
                                             !.isRetryable = FALSE]

NotProcessed ==
  [response |-> Body(FALSE, NoValue, NoSubject), operator |-> "",
   value |-> handleErrorResponse(Body(FALSE, NoValue, NoSubject), "")]

\* ResponseHandler.processResponse: the value returned
processResponseValue(response, op) ==
  IF response.error THEN handleErrorResponse(response, op)
  ELSE IF response.ok THEN handleSuccessResponse(response, op)
  ELSE IF response.status = "PENDING" THEN handlePendingResponse(response, op)
  ELSE unnormalized(response, op)

\* ResponseHandler.processResponse(response, operator, requestType)
ProcessResponse(response, op) ==
  /\ Known(op)
  /\ processed' = [response |-> response, operator |-> op,
                   value |-> processResponseValue(response, op)]
  /\ last' = Step("processResponse", "start", op, "", 0,
                  IF response.error THEN "NORMALIZED_ERROR"
                  ELSE IF response.ok THEN "NORMALIZED_SUCCESS"
                  ELSE IF response.status = "PENDING" THEN "NORMALIZED_PENDING"
                  ELSE "RESPONSE", FALSE)
  /\ UNCHANGED <<clockVars, clientVars, storeVars, pinVars, pendingCheckouts, flowVars,
                 hookVars, calls, requests>>

\* SLAClient.handleResponse, the status: the transaction status of a success
\* body is rewritten in the body itself, which is then handed back
handleResponse(response, op) ==
  IF operatorConfigs[op].statusResponse = "SUCCESS" /\ response.ok /\ response.status = "SUCCESS"
  THEN [response EXCEPT !.status = "CHARGED"]
  ELSE response

\* a public operation of SLADigitalIntegration from the HTTP answer on, with
\* the body of the answer: makeRequest hands the body to handleResponse, which
\* keeps the reference mapping under the uuid of the body (these bodies have
\* none), and the operation hands what comes back to processResponse
PublicOperationAnswer(upstream, op) ==
  /\ Known(op)
  /\ acrMappings' = IF /\ operatorConfigs[op].usesACR
                       /\ upstream.ok
                       /\ upstream.msisdn # NoSubject
                       /\ startsWith(upstream.msisdn, TelenorPrefix)
                    THEN Put(acrMappings, NoValue, upstream.msisdn)
                    ELSE acrMappings
  /\ processed' = [response |-> handleResponse(upstream, op), operator |-> op,
                   value |-> processResponseValue(handleResponse(upstream, op), op)]
  /\ last' = Step("publicOperation", "return", op, "", 0,
                  IF upstream.error THEN "NORMALIZED_ERROR"
                  ELSE IF upstream.ok THEN "NORMALIZED_SUCCESS"
                  ELSE IF upstream.status = "PENDING" THEN "NORMALIZED_PENDING"
                  ELSE "RESPONSE", FALSE)
  /\ UNCHANGED <<clockVars, environment, slaClient, storeVars, pinVars, pendingCheckouts,
                 flowVars, hookVars, calls, requests>>


\* ------------------------------------------------------------------------
\* SLADigitalIntegration: the public operations over the gateway
\* ------------------------------------------------------------------------
PublicOperations == {"createSubscription", "charge", "generatePIN", "sendSMS"}

\* the gateway method a public operation calls: "ok" or the error it throws
\* before its HTTP request
clientCall(name, op, p) ==
  CASE name = "createSubscription" -> createSubscription(op, p)
    [] name = "charge" -> charge(op, p)
    [] name = "generatePIN" -> generatePIN(op, p)
    [] name = "sendSMS" -> sendSMS(op, p)

EndpointOf(name) ==
  CASE name = "createSubscription" -> "subscription/create"
    [] name = "charge" -> "charge"
    [] name = "generatePIN" -> "pin"
    [] name = "sendSMS" -> "sms"

\* ResponseHandler.processResponse on the body the gateway hands back
processResponse(answer) ==
  IF answer = "error" THEN "NORMALIZED_ERROR" ELSE "NORMALIZED_SUCCESS"

\* a public operation (createSubscription, charge, generatePIN, sendSMS), up to
\* the await of the HTTP request inside SLAClient.makeRequest
PublicOperationStart(c, name, op, p) ==
  /\ Free(c)
  /\ Known(op)
  /\ LET err == clientCall(name, op, p)
     IN  IF err # "ok"
         THEN /\ last' = Step(name, "start", op, p.msisdn, 0, err, FALSE)
              /\ UNCHANGED <<calls, requests>>
         ELSE /\ BagCardinality(requests) < MaxGatewayCalls
              /\ calls' = [calls EXCEPT ![c] = Suspended(name, op, p.msisdn, 0, TRUE)]
              /\ Send(Request(EndpointOf(name), op, p.msisdn, 0))
              /\ last' = Step(name, "start", op, p.msisdn, 0, "await", TRUE)
  /\ UNCHANGED <<clockVars, clientVars, processed, storeVars, pinVars, pendingCheckouts, flowVars, hookVars>>

\* a public operation, from the HTTP answer on: makeRequest hands the body to
\* handleResponse or throws what handleError gives; the operation hands the
\* body to processResponse, and its catch block logs and rethrows
PublicOperationReturn(c, answer) ==
  /\ calls[c].kind \in PublicOperations
  /\ answer \in Answers(calls[c].accept)
  /\ last' = Returned(calls[c].kind, calls[c].op, calls[c].key, 0, answer,
                      IF answer = "throw" THEN "GATEWAY_ERROR" ELSE processResponse(answer))
  /\ calls' = [calls EXCEPT ![c] = NoCall]
  /\ UNCHANGED <<clockVars, clientVars, processed, storeVars, pinVars, pendingCheckouts, flowVars, hookVars,
                 requests>>

\* ------------------------------------------------------------------------
\* WebhookHandler
\* ------------------------------------------------------------------------

\* ResponseHandler.processWebhookNotification: "ok" or the error thrown
processWebhookNotification(n) ==
  IF n.operator = NoValue THEN "OPERATOR_NOT_IDENTIFIED"
  \* config.suspendOnInsufficientFunds read from undefined
  ELSE IF n.status = "SUSPENDED" /\ ~Known(n.operator) THEN "TYPE_ERROR"
  ELSE "ok"

\* the events whose callbacks processWebhook invokes for a notification: those
\* of its specific handlers, then executeCallbacks with the type and the wildcard
CallbackEvents(op, n) ==
  (IF isUKOperator(op) /\ n.type = "subscription" /\ n.ok
     THEN {"subscription_created"} ELSE {})
  \cup (IF StartsWithZain(op) /\ n.status = "SUSPENDED"
          THEN {"subscription_suspended"} ELSE {})
  \cup (IF n.status \in {"INSUFFICIENT_FUNDS", "FAILED"} THEN {"payment_failed"} ELSE {})
  \cup (IF n.status \in {"DELETED", "REMOVED"} THEN {"subscription_deleted"} ELSE {})
  \cup {n.type, "*"}

\* WebhookHandler.registerCallback
RegisterCallback(op, event) ==
  /\ <<op, event>> \notin webhookCallbacks
  /\ webhookCallbacks' = webhookCallbacks \cup {<<op, event>>}
  /\ last' = Step("registerCallback", "start", op, event, 0, "done", FALSE)
  /\ UNCHANGED <<clockVars, clientVars, processed, storeVars, pinVars, pendingCheckouts, flowVars, delivered,
                 invocations, calls, requests>>

\* obj is 1 when a flow reference was stored under the notification's key as
\* processing began
WebhookStep(op, n, key, found, outcome) ==
  [Step("processWebhook", "start", op, key, IF found THEN 1 ELSE 0, outcome, FALSE)
     EXCEPT !.note = n]

\* WebhookHandler.processWebhook with handleUKSubscriptionCreated,
\* handleZainSuspension, handleAxiataAsyncCompletion and executeCallbacks; the
\* callbacks are the integrator's and return without throwing
ProcessWebhook(op, n) ==
  /\ BagCardinality(delivered) < MaxWebhooks
  /\ delivered' = delivered (+) SetToBag({<<op, n>>})
  /\ LET uk == isUKOperator(op) /\ n.type = "subscription" /\ n.ok
         axiata == op = "axiata-lk" /\ n.ok
         key == IF uk THEN n.correlator ELSE n.transaction_id
         found == (uk \/ axiata) /\ getFlowReference(op, key)
         invoked == {<<op, e>> : e \in CallbackEvents(op, n)} \cap webhookCallbacks
     IN  IF processWebhookNotification(n) # "ok"
         THEN /\ last' = WebhookStep(op, n, key, found, processWebhookNotification(n))
              /\ UNCHANGED <<activeFlows, invocations>>
         \* handleZainSuspension reads notification.success.uuid
         ELSE IF StartsWithZain(op) /\ n.status = "SUSPENDED" /\ ~n.ok
         THEN /\ last' = WebhookStep(op, n, key, found, "TYPE_ERROR")
              /\ UNCHANGED <<activeFlows, invocations>>
         ELSE /\ activeFlows' = IF found THEN clearFlowReference(op, key) ELSE activeFlows
              /\ invocations' = invocations (+) SetToBag({<<k, n>> : k \in invoked})
              /\ last' = WebhookStep(op, n, key, found, "processed")
  /\ UNCHANGED <<clockVars, clientVars, processed, storeVars, pinVars, pendingCheckouts, flowTimers,
                 webhookCallbacks, calls, requests>>

\* ------------------------------------------------------------------------
\* The clock
\* ------------------------------------------------------------------------
Tick(d) ==
  /\ ticks < MaxTicks
  /\ ticks' = ticks + 1
  /\ now' = now + d
  /\ last' = NoStep
  /\ UNCHANGED <<clientVars, processed, storeVars, pinVars, pendingCheckouts, flowVars, hookVars, calls,
                 requests>>

\* ------------------------------------------------------------------------
\* Specifications
\* ------------------------------------------------------------------------
\* the objects as their constructors leave them, whatever client they are handed
Constructed ==
  /\ now = 0
  /\ ticks = 0
  /\ environment \in {"sandbox", "production"}
  /\ acrMappings = <<>>
  /\ pinHeap = <<>>
  /\ activePINs = [k \in PinKeys |-> 0]
  /\ pendingCheckouts = <<>>
  /\ activeFlows = <<>>
  /\ flowTimers = {}
  /\ webhookCallbacks = {}
  /\ delivered = EmptyBag
  /\ invocations = EmptyBag
  /\ processed = NotProcessed
  /\ webhookHistory = <<>>
  /\ received = 0
  /\ subscriptions = <<>>
  /\ subscriptionsByMSISDN = <<>>
  /\ calls = [c \in CallIds |-> NoCall]
  /\ requests = EmptyBag
  /\ last = NoStep

\* new FlowManager(sla.client): the flows wired to the SLAClient
Init == Constructed /\ slaClient = "SLAClient"

\* new PINFlow(client) with any object that has the gateway's methods
InitInjected == Constructed /\ slaClient \in Clients

PinParams ==
  [msisdn : Msisdns, pin : PinValues, campaign : {TRUE}, amount : {FALSE},
   fraud_token : {FALSE}]

PinTicks == {PIN_TTL}

NextPIN ==
  \/ \E c \in CallIds, op \in PinOps, p \in PinParams : GeneratePINStart(c, op, p)
  \/ \E c \in CallIds, a \in {"success", "error", "throw"} : GeneratePINReturn(c, a)
  \/ \E c \in CallIds, op \in PinOps, p \in PinParams : CompletePINStart(c, op, p)
  \/ \E c \in CallIds, a \in {"success", "error", "throw"} : CompletePINReturn(c, a)
  \/ CleanupExpiredPINs
  \/ \E d \in PinTicks : Tick(d)

SpecPIN == Init /\ [][NextPIN]_vars

\* the verification of a one-off charge
ChargeParams ==
  [msisdn : Msisdns, pin : PinValues, campaign : {TRUE}, amount : BOOLEAN,
   fraud_token : {FALSE}]

NextCharge ==
  \/ \E c \in CallIds, op \in PinOps, p \in ChargeParams : GeneratePINStart(c, op, p)
  \/ \E c \in CallIds, a \in {"success", "error", "throw"} : GeneratePINReturn(c, a)
  \/ \E c \in CallIds, op \in PinOps, p \in ChargeParams : CompleteChargeStart(c, op, p)
  \/ \E c \in CallIds, a \in {"success", "error", "throw"} : CompleteChargeReturn(c, a)
  \/ \E d \in PinTicks : Tick(d)

SpecCharge == Init /\ [][NextCharge]_vars

\* the operators, parameters and clock steps of the checkout sessions
CheckoutOps == {"three-uk"}

CheckoutParams ==
  [msisdn : Msisdns, campaign : {TRUE}, amount : {TRUE}, fraud_token : {FALSE},
   useCheckout : {TRUE}, preferCheckout : {FALSE}, preferPIN : {FALSE},
   correlator : {"corr-A"}, transaction_id : {NoValue}]

CheckoutTicks == {CHECKOUT_TTL}

NextCheckout ==
  \/ \E c \in CallIds, op \in CheckoutOps, p \in CheckoutParams : InitiateSubscription(c, op, p)
  \/ \E c \in CallIds, op \in CheckoutOps, id \in SessionIds :
        CompleteCheckoutSubscriptionStart(c, op, id)
  \/ \E c \in CallIds, a \in {"success", "error", "throw"} :
        CompleteCheckoutSubscriptionReturn(c, a)
  \/ \E c \in CallIds, op \in CheckoutOps, id \in SessionIds :
        CompleteCheckoutChargeStart(c, op, id)
  \/ \E c \in CallIds, a \in {"success", "error", "throw"} : CompleteCheckoutChargeReturn(c, a)
  \/ \E id \in SessionIds : SessionTimerFire(id)
  \/ \E d \in CheckoutTicks : Tick(d)

SpecCheckout == Init /\ [][NextCheckout]_vars

\* the clock steps that take sessions and flow references past their deadlines
ExpiryTicks == {FLOW_TTL}

NextExpiry ==
  \/ \E c \in CallIds, op \in CheckoutOps, p \in CheckoutParams : InitiateSubscription(c, op, p)
  \/ \E c \in CallIds, op \in CheckoutOps, id \in SessionIds :
        CompleteCheckoutSubscriptionStart(c, op, id)
  \/ \E c \in CallIds, op \in CheckoutOps, id \in SessionIds :
        CompleteWithTokenStart(c, op, "corr-A", id)
  \/ \E c \in CallIds, a \in {"success", "error", "throw"} :
        CompleteCheckoutSubscriptionReturn(c, a)
  \/ \E c \in CallIds, a \in {"success", "error", "throw"} : CompleteWithTokenReturn(c, a)
  \/ \E id \in SessionIds : SessionTimerFire(id)
  \/ \E timer \in flowTimers : FlowTimerFire(timer)
  \/ \E d \in ExpiryTicks : Tick(d)

SpecExpiry == Init /\ [][NextExpiry]_vars

\* the operators, notifications and clock steps of the webhook reconciliation
WebhookOps == {"three-uk"}

WebhookParams ==
  [msisdn : Msisdns, campaign : {TRUE}, amount : {TRUE}, fraud_token : {FALSE},
   useCheckout : {TRUE}, preferCheckout : {FALSE}, preferPIN : {FALSE},
   correlator : {"corr-A", NoValue}, transaction_id : {NoValue}]

Notifications(op) ==
  {Notification(o, TRUE, "subscription", "CHARGED", "corr-A", NoValue) : o \in {op, NoValue}}

CallbackNames == {"subscription_created", "*"}

WebhookTicks == {FLOW_TTL}

NextWebhook ==
  \/ \E c \in CallIds, op \in WebhookOps, p \in WebhookParams : InitiateSubscription(c, op, p)
  \/ \E op \in WebhookOps, e \in CallbackNames : RegisterCallback(op, e)
  \/ \E op \in WebhookOps : \E n \in Notifications(op) : ProcessWebhook(op, n)
  \/ \E id \in SessionIds : SessionTimerFire(id)
  \/ \E timer \in flowTimers : FlowTimerFire(timer)
  \/ \E d \in WebhookTicks : Tick(d)

SpecWebhook == Init /\ [][NextWebhook]_vars

\* a flow reference stored twice under one key, ten minutes apart, and the
\* clock steps that reach the first reference's deadline before the second's
ReferenceParams ==
  [msisdn : Msisdns, campaign : {TRUE}, amount : {TRUE}, fraud_token : {FALSE},
   useCheckout : {TRUE}, preferCheckout : {FALSE}, preferPIN : {FALSE},
   correlator : {"corr-A"}, transaction_id : {NoValue}]

ReferenceTicks == {CHECKOUT_TTL, FLOW_TTL - CHECKOUT_TTL}

NextReference ==
  \/ \E c \in CallIds, op \in WebhookOps, p \in ReferenceParams : InitiateSubscription(c, op, p)
  \/ \E op \in WebhookOps : \E n \in Notifications(op) : ProcessWebhook(op, n)
  \/ \E id \in SessionIds : SessionTimerFire(id)
  \/ \E timer \in flowTimers : FlowTimerFire(timer)
  \/ \E d \in ReferenceTicks : Tick(d)

SpecReference == Init /\ [][NextReference]_vars

\* the operators, parameters and notifications of the flow references that a
\* webhook or a token completion resolves; no resolution reads the clock
ResolutionOps == {"telenor-mm", "axiata-lk"}

ResolutionParams ==
  [msisdn : Msisdns, campaign : {TRUE}, amount : {TRUE}, fraud_token : {FALSE},
   useCheckout : {TRUE}, preferCheckout : {FALSE}, preferPIN : {FALSE},
   correlator : {"corr-A"}, transaction_id : {"txn-A"}]

ResolutionNotifications(op) ==
  {Notification(op, TRUE, "subscription", "CHARGED", "corr-A", "txn-A")}

NextResolution ==
  \/ \E c \in CallIds, op \in ResolutionOps, p \in ResolutionParams :
        InitiateSubscription(c, op, p)
  \/ \E c \in CallIds, op \in ResolutionOps, id \in SessionIds :
        CompleteWithTokenStart(c, op, "corr-A", id)
  \/ \E c \in CallIds, a \in {"success", "error", "throw"} : CompleteWithTokenReturn(c, a)
  \/ \E op \in ResolutionOps : \E n \in ResolutionNotifications(op) : ProcessWebhook(op, n)

SpecResolution == Init /\ [][NextResolution]_vars

\* the operators and parameters of PIN issuing with required parameters, for
\* a PINFlow constructed with any client
IssueOps == {"ooredoo-kw", "mobily-sa"}

IssueParams ==
  [msisdn : Msisdns, pin : {NoValue}, campaign : {TRUE}, amount : BOOLEAN,
   fraud_token : BOOLEAN]

NextInjected ==
  \/ \E c \in CallIds, op \in IssueOps, p \in IssueParams : GeneratePINStart(c, op, p)
  \/ \E c \in CallIds, a \in {"success", "error", "throw"} : GeneratePINReturn(c, a)

SpecInjected == InitInjected /\ [][NextInjected]_vars

\* the bodies handed to the response normalizer: every status vocabulary, and
\* subject identifiers that are a phone number, anonymous references with an
\* identifier segment longer and shorter than 30 characters, one with a second
\* colon, one without any
Statuses == {"SUCCESS", "CHARGED", "FAILED", NoValue}

PhoneNumber == <<"9", "5", "9", "1", "2", "3">>

ReferenceWith(segment) == TelenorPrefix \o <<"T", "L", "N", ":">> \o segment

SubjectIds ==
  {NoSubject, PhoneNumber, TelenorPrefix \o <<"T", "L", "N">>,
   TelenorPrefix \o Chars(ACR_ID_LENGTH, "X"),
   ReferenceWith(Chars(ACR_ID_LENGTH + 2, "X")),
   ReferenceWith(Chars(ACR_ID_LENGTH, "X") \o <<"Y">>),
   ReferenceWith(<<"a", "b">>),
   ReferenceWith(<<"a", "b", ":", "c">>)}

\* error categories and codes: the four retryable codes and others
ErrorCategories == {"pin", "billing"}

ErrorCodes == retryableErrors \union {"1001", "3004", "5003", NoValue}

Bodies ==
  {Body(ok, status, msisdn) : ok \in BOOLEAN, status \in Statuses, msisdn \in SubjectIds}
    \union {ErrorBody(category, code) : category \in ErrorCategories, code \in ErrorCodes}
    \union {BareBody(status) : status \in {"PENDING", NoValue}}

NextNormalizer == \E response \in Bodies, op \in Operators : ProcessResponse(response, op)

SpecNormalizer == Init /\ [][NextNormalizer]_vars

\* the answers of the upstream platform to a public operation, for operators
\* of the alternate vocabulary, of the usual one and of anonymous references
EndToEndOps == {"zain-kw", "zain-bh", "telenor-mm"}

NextEndToEnd == \E upstream \in Bodies, op \in EndToEndOps : PublicOperationAnswer(upstream, op)

SpecEndToEnd == Init /\ [][NextEndToEnd]_vars

\* subscriptions stored and created for the same subscriber
SubscriptionOps == {"zain-bh"}

SubscriptionData ==
  [uuid : {"uuid-1", "uuid-2"}, msisdn : Msisdns \union AnonymousReferences \union {NoValue},
   campaign : BOOLEAN, status : {NoValue, "SUSPENDED", "DELETED"}]

SubscriptionParams ==
  [msisdn : Msisdns, campaign : {TRUE}, amount : {TRUE}, fraud_token : {FALSE},
   useCheckout : {TRUE}, preferCheckout : {FALSE}, preferPIN : {FALSE},
   correlator : {NoValue}, transaction_id : {NoValue}]

NextSubscriptions ==
  \/ \E op \in SubscriptionOps, data \in SubscriptionData :
       data.uuid \notin DOMAIN subscriptions /\ StoreSubscription(op, data)
  \/ \E c \in CallIds, op \in SubscriptionOps, p \in SubscriptionParams :
       CreateSubscription(c, op, p)
  \/ \E c \in CallIds, a \in {"success", "error", "throw"} : PINFlowReturn(c, a)

SpecSubscriptions == Init /\ [][NextSubscriptions]_vars

\* the deletion of subscriptions of an operator that uses anonymous
\* references: mappings kept from responses, subscriptions stored, deletions
DeletionOps == {"telenor-mm"}

DeletionData ==
  [uuid : Uuids, msisdn : Msisdns \union AnonymousReferences, campaign : {TRUE},
   status : {NoValue}]

DeletionParams == [uuid : Uuids, msisdn : Msisdns \union {NoValue}, amount : {TRUE}]

NextDeletion ==
  \/ \E op \in DeletionOps, uuid \in Uuids, msisdn \in Msisdns \union AnonymousReferences :
       HandleResponseMapping(op, uuid, msisdn)
  \/ \E op \in DeletionOps, data \in DeletionData :
       data.uuid \notin DOMAIN subscriptions /\ StoreSubscription(op, data)
  \/ \E c \in CallIds, op \in DeletionOps, p \in DeletionParams : DeleteSubscriptionStart(c, op, p)
  \/ \E c \in CallIds, a \in {"success", "error", "throw"} : DeleteSubscriptionReturn(c, a)

SpecDeletion == Init /\ [][NextDeletion]_vars

\* the store driven by its three operations, a uuid stored more than once included
IndexData ==
  [uuid : Uuids, msisdn : Msisdns \union AnonymousReferences \union {NoValue},
   campaign : {TRUE}, status : {NoValue, "SUSPENDED"}]

IndexStatuses == {"ACTIVE", "DELETED"}

NextIndexes ==
  \/ \E op \in SubscriptionOps, data \in IndexData : StoreSubscription(op, data)
  \/ \E uuid \in Uuids, status \in IndexStatuses : UpdateSubscription(uuid, status)
  \/ \E uuid \in Uuids : RemoveSubscription(uuid)

SpecIndexes == Init /\ [][NextIndexes]_vars

\* the redirect variants, with and without an identifier from the caller
RedirectOps == {"three-uk", "telenor-mm", "axiata-lk", "9mobile-ng"}

RedirectParams ==
  [msisdn : Msisdns, campaign : {TRUE}, amount : {TRUE}, fraud_token : {FALSE},
   useCheckout : {TRUE}, preferCheckout : {FALSE}, preferPIN : {FALSE},
   correlator : {"corr-A", NoValue}, transaction_id : {"txn-A", NoValue}]

NextRedirect ==
  \/ \E c \in CallIds, op \in RedirectOps, p \in RedirectParams :
       InitiateSubscription(c, op, p)
  \/ \E c \in CallIds, op \in RedirectOps, correlator \in {"corr-A", NoValue},
          id \in 1..MaxSessions :
       CompleteWithTokenStart(c, op, correlator, id)
  \/ \E c \in CallIds, a \in {"success", "error", "throw"} : CompleteWithTokenReturn(c, a)

SpecRedirect == Init /\ [][NextRedirect]_vars

\* the webhook history past its limit
NextHistory == \E op \in {"zain-bh"} : StoreWebhookHistory(op)

SpecHistory == Init /\ [][NextHistory]_vars

\* the operators and parameters of the public gateway operations
GatewayOps == {"zain-bh", "three-uk"}

GatewayParams ==
  [msisdn : Msisdns, pin : {"good"}, token : {FALSE}, campaign : {TRUE},
   amount : BOOLEAN, fraud_token : {TRUE}]

NextGateway ==
  \/ \E c \in CallIds, name \in PublicOperations, op \in GatewayOps, p \in GatewayParams :
        PublicOperationStart(c, name, op, p)
  \/ \E c \in CallIds, a \in {"success", "error", "throw"} : PublicOperationReturn(c, a)

SpecGateway == Init /\ [][NextGateway]_vars

\* the operators and parameters of the routing by operator; no routing decision
\* reads the clock
RoutingOps == {"mobily-sa", "zain-bh", "etisalat-ae", UnknownOperator}

RoutingParams ==
  [msisdn : Msisdns, campaign : {TRUE}, amount : {TRUE}, fraud_token : BOOLEAN,
   useCheckout : {TRUE}, preferCheckout : {FALSE}, preferPIN : BOOLEAN,
   correlator : {NoValue}, transaction_id : {NoValue}]

NextRouting ==
  \/ \E c \in CallIds, op \in RoutingOps, p \in RoutingParams : InitiateSubscription(c, op, p)
  \/ \E c \in CallIds, op \in RoutingOps, p \in RoutingParams : InitiateCharge(c, op, p)
  \/ \E c \in CallIds, a \in {"success", "error", "throw"} : PINFlowReturn(c, a)
  \/ \E c \in CallIds, op \in RoutingOps : MakeRequestStart(c, op)
  \/ \E c \in CallIds, a \in {"success", "error", "throw"} : MakeRequestReturn(c, a)

SpecRouting == Init /\ [][NextRouting]_vars

\* the operator that offers the redirect or the PIN, with every choice of
\* useCheckout (FALSE: the caller passed exactly false) and of the amount
ChoiceOps == {"ooredoo-kw"}

ChoiceParams ==
  [msisdn : Msisdns, campaign : {TRUE}, amount : BOOLEAN, fraud_token : {FALSE},
   useCheckout : BOOLEAN, preferCheckout : {FALSE}, preferPIN : {FALSE},
   correlator : {NoValue}, transaction_id : {NoValue}]

NextChoice ==
  \/ \E c \in CallIds, op \in ChoiceOps, p \in ChoiceParams : InitiateSubscription(c, op, p)
  \/ \E c \in CallIds, a \in {"success", "error", "throw"} : PINFlowReturn(c, a)

SpecChoice == Init /\ [][NextChoice]_vars

\* every operator of the table with every combination of the flags that the
\* dispatch of initiateSubscription reads
DispatchParams ==
  [msisdn : Msisdns, campaign : {TRUE}, amount : BOOLEAN, fraud_token : BOOLEAN,
   useCheckout : BOOLEAN, preferCheckout : BOOLEAN, preferPIN : {FALSE},
   correlator : {NoValue}, transaction_id : {NoValue}]

\* the sessions and PIN requests that the dispatches may leave behind
MaxDispatched == 2

NextDispatch ==
  \/ /\ Len(pendingCheckouts) + BagCardinality(requests) < MaxDispatched
     /\ \E c \in CallIds, op \in Operators, p \in DispatchParams :
          InitiateSubscription(c, op, p)
  \/ \E c \in CallIds, a \in {"success", "error", "throw"} : PINFlowReturn(c, a)

SpecDispatch == Init /\ [][NextDispatch]_vars

\* ------------------------------------------------------------------------
\* Properties of the PIN flow
\* ------------------------------------------------------------------------
LastKey == PinKey(last.op, last.key)

LastIsCompletePINStart == last.kind = "completePIN" /\ last.phase = "start"

\* the completion requests handed to the HTTP client for PIN object m
CompletionRequestsFor(m) ==
  LET r == Request("subscription/create", last.op, last.key, m)
  IN  IF r \in DOMAIN requests THEN requests[r] ELSE 0

\* C1, as stated: a completeSubscriptionWithPIN call made at a time >= T+120s,
\* T the time the stored code was issued, fails with the PIN-expired error,
\* submits nothing upstream and leaves no PendingCode for the key.
C1_ExpiredAtOrAfterDeadline ==
  (LastIsCompletePINStart /\ last.obj # 0 /\ now >= pinHeap[last.obj].sentAt + PIN_TTL)
    => (last.outcome = "PIN_EXPIRED" /\ ~last.sent /\ activePINs[LastKey] = 0)

\* C1, amended: a completeSubscriptionWithPIN call made at a time > T+120s that
\* finds the code still stored fails with the PIN-expired error, submits nothing
\* upstream and leaves no PendingCode for the key; a call that finds no
\* PendingCode fails with the no-pending-code error and submits nothing.
C1_ExpiredAfterDeadline ==
  /\ (LastIsCompletePINStart /\ last.obj # 0 /\ now > pinHeap[last.obj].sentAt + PIN_TTL)
        => (last.outcome = "PIN_EXPIRED" /\ ~last.sent /\ activePINs[LastKey] = 0)
  /\ (LastIsCompletePINStart /\ last.obj = 0)
        => (last.outcome = "NO_PIN_REQUEST" /\ ~last.sent)

C1_Witness ==
  /\ LastIsCompletePINStart
  /\ last.obj # 0
  /\ now > pinHeap[last.obj].sentAt + PIN_TTL
  /\ last.outcome = "PIN_EXPIRED"
  /\ activePINs[LastKey] = 0

\* C2: with three attempts already counted against the stored code, a further
\* completeSubscriptionWithPIN call inside the validity window fails with the
\* attempts-exceeded error whatever PIN it carries, submits nothing upstream
\* and deletes the PendingCode.
C2_FourthAttemptRejected ==
  (/\ LastIsCompletePINStart
   /\ last.obj # 0
   /\ now <= pinHeap[last.obj].sentAt + PIN_TTL
   /\ pinHeap[last.obj].attempts = MAX_PIN_ATTEMPTS + 1)
    => (last.outcome = "MAX_ATTEMPTS_EXCEEDED" /\ ~last.sent /\ activePINs[LastKey] = 0)

C2_Witness ==
  /\ LastIsCompletePINStart
  /\ last.obj # 0
  /\ now <= pinHeap[last.obj].sentAt + PIN_TTL
  /\ pinHeap[last.obj].attempts = MAX_PIN_ATTEMPTS + 1
  /\ CompletionRequestsFor(last.obj) = MAX_PIN_ATTEMPTS
  /\ last.outcome = "MAX_ATTEMPTS_EXCEEDED"

\* C3: when the third attempt counted against a code is answered with success
\* by the upstream platform, completeSubscriptionWithPIN returns that success
\* result and no PendingCode is left for the key.
C3_ThirdAttemptSucceeds ==
  (/\ last.kind = "completePIN"
   /\ last.phase = "return"
   /\ last.answer = "success"
   /\ pinHeap[last.obj].attempts = MAX_PIN_ATTEMPTS)
    => (last.outcome = "RESPONSE_SUCCESS" /\ activePINs[LastKey] = 0)

\* ------------------------------------------------------------------------
\* Properties of the checkout sessions
\* ------------------------------------------------------------------------
LastIsCompletionStart ==
  /\ last.kind \in {"completeCheckoutSubscription", "completeCheckoutCharge"}
  /\ last.phase = "start"

LastSessionExists == last.obj \in 1..Len(pendingCheckouts)

\* C4: once a completeCheckoutSubscription or completeCheckoutCharge call has
\* returned upstream success for a session, every later completion call with
\* that session id fails with the session-not-found error and submits nothing.
C4_CompletedSessionIsGone ==
  (LastIsCompletionStart /\ LastSessionExists /\ pendingCheckouts[last.obj].completed)
    => (last.outcome = "SESSION_NOT_FOUND" /\ ~last.sent)

C4_Witness ==
  /\ LastIsCompletionStart
  /\ LastSessionExists
  /\ pendingCheckouts[last.obj].completed
  /\ SessionRequests(last.obj) = 1
  /\ last.outcome = "SESSION_NOT_FOUND"

\* C5: no two completeCheckoutSubscription calls for the same session are
\* waiting for the gateway at once, so concurrent calls submit at most one
\* completion request for the session.
C5_OneCompletionInFlight ==
  \A c, d \in CallIds :
    (/\ c # d
     /\ calls[c].kind = "completeCheckoutSubscription"
     /\ calls[d].kind = "completeCheckoutSubscription")
      => calls[c].obj # calls[d].obj

\* C10: a completion call made after the 10-minute deadline of its checkout
\* session fails with the session-not-found error, and a completeWithToken call
\* made after the 30-minute deadline of its flow reference fails with the
\* no-active-flow error, whether or not the cleanup timeout has run.
C10_ExpiredEntriesAbsent ==
  /\ (LastIsCompletionStart /\ LastSessionExists
        /\ now > pendingCheckouts[last.obj].expiresAt)
       => last.outcome = "SESSION_NOT_FOUND"
  /\ (last.kind = "completeWithToken" /\ last.phase = "start"
        /\ RefKey(last.op, last.key) \in DOMAIN activeFlows
        /\ now > activeFlows[RefKey(last.op, last.key)].expiresAt)
       => last.outcome = "NO_ACTIVE_FLOW"

\* ------------------------------------------------------------------------
\* Properties of concurrent PIN verification
\* ------------------------------------------------------------------------
\* the subscription-create requests handed to the HTTP client for the code m
RequestsForCode(m) ==
  LET rs == {r \in DOMAIN requests : r.endpoint = "subscription/create" /\ r.obj = m}
      sum[S \in SUBSET rs] ==
        IF S = {} THEN 0 ELSE LET r == CHOOSE x \in S : TRUE IN requests[r] + sum[S \ {r}]
  IN  sum[rs]

\* C11: whatever the interleaving of the completeSubscriptionWithPIN calls for
\* one key, no issued code (PIN metadata object) has more than three
\* subscription-create requests submitted upstream, and the attempt counter of
\* the code is never below the number of requests submitted for it.
C11_AttemptsNeverLost ==
  \A m \in 1..Len(pinHeap) :
    /\ RequestsForCode(m) <= MAX_PIN_ATTEMPTS
    /\ pinHeap[m].attempts >= RequestsForCode(m)

\* two verification calls for the same code are in flight together and the code
\* has had its three requests
C11_Witness ==
  \E m \in 1..Len(pinHeap) :
    /\ RequestsForCode(m) = MAX_PIN_ATTEMPTS
    /\ \A c \in CallIds : calls[c].kind = "completePIN" /\ calls[c].obj = m

\* C18: no step hands more than one request to the HTTP client, a step hands
\* one over exactly when it ends at the await of a gateway call, and the step
\* that resumes a handler with the gateway's answer, failed or not, hands over
\* none: nothing is submitted again.
C18_NoInternalRetry ==
  [][/\ BagCardinality(requests') <= BagCardinality(requests) + 1
     /\ last'.sent <=> requests' # requests
     /\ last'.phase = "return" => requests' = requests]_vars

\* a verification request has failed in transport and its handler has ended,
\* with that one request the only one made for the code
C18_Witness ==
  /\ last.kind = "completePIN" /\ last.phase = "return" /\ last.answer = "throw"
  /\ RequestsForCode(last.obj) = 1

\* C12: when a completeSubscriptionWithPIN call has been answered with success
\* by the upstream platform, no PIN metadata is stored under its key when the
\* call ends, whatever other verification calls for the key are in flight.
C12_SucceededCodeIsGone ==
  (last.kind = "completePIN" /\ last.phase = "return" /\ last.answer = "success")
    => getPINMetadata(last.key, last.op) = 0

\* C15: when the upstream platform answers the completion request with
\* success, completeSubscriptionWithPIN and completeCheckoutSubscription end by
\* returning that success, never by throwing.
C15_SuccessSurvivesWelcomeMessage ==
  (last.kind \in {"completePIN", "completeCheckoutSubscription"}
     /\ last.phase = "return" /\ last.answer = "success")
    => last.outcome = "RESPONSE_SUCCESS"

\* ------------------------------------------------------------------------
\* Properties of the webhook reconciliation
\* ------------------------------------------------------------------------
\* the last step processed a subscription notification with a success body
\* for a UK operator
LastIsUKSubscriptionWebhook ==
  /\ last.kind = "processWebhook"
  /\ isUKOperator(last.op)
  /\ last.note.type = "subscription"
  /\ last.note.ok

CountIn(bag, e) == IF e \in DOMAIN bag THEN bag[e] ELSE 0

LastDeliveries == CountIn(delivered, <<last.op, last.note>>)

LastCreatedInvocations ==
  CountIn(invocations, <<<<last.op, "subscription_created">>, last.note>>)

\* C6: when the same subscription notification of a UK operator is processed a
\* second time and no flow reference is found, the subscription_created
\* callback is not invoked again: it has run exactly once for the notification.
C6_SecondWebhookInvokesNothing ==
  (/\ LastIsUKSubscriptionWebhook
   /\ last.outcome = "processed"
   /\ last.obj = 0
   /\ LastDeliveries = 2
   /\ <<last.op, "subscription_created">> \in webhookCallbacks)
    => LastCreatedInvocations = 1

\* C7: when a subscription notification naming the same UK operator and the
\* correlator of a registered flow reference is processed, processWebhook
\* completes without error and the flow reference is gone; if it is the first
\* delivery of the notification, a registered subscription_created callback
\* has been invoked exactly once for it.
C7_MatchingWebhookReconciles ==
  (LastIsUKSubscriptionWebhook /\ last.note.operator = last.op /\ last.obj = 1)
    => /\ last.outcome = "processed"
       /\ RefKey(last.op, last.note.correlator) \notin DOMAIN activeFlows
       /\ (LastDeliveries = 1 /\ <<last.op, "subscription_created">> \in webhookCallbacks)
            => LastCreatedInvocations = 1

C7_Witness ==
  /\ LastIsUKSubscriptionWebhook
  /\ last.note.operator = last.op
  /\ last.obj = 1
  /\ LastDeliveries = 1
  /\ <<last.op, "subscription_created">> \in webhookCallbacks
  /\ LastCreatedInvocations = 1
  /\ RefKey(last.op, last.note.correlator) \notin DOMAIN activeFlows


\* C33: the subscription_created callback is invoked only by a processWebhook
\* call that resolved a pending flow reference of the operator and correlator:
\* a notification for which no reference is found adds no invocation of it.
C33_CallbackOnlyForResolvedReference ==
  [][(last'.kind = "processWebhook" /\ last'.obj = 0) =>
       CountIn(invocations', <<<<last'.op, "subscription_created">>, last'.note>>)
         = CountIn(invocations, <<<<last'.op, "subscription_created">>, last'.note>>)]_vars

\* C13: a resolved flow reference is removed: when a webhook has been processed
\* that found a UK or Axiata reference under its key, and when a
\* completeWithToken call of an ACR operator has had its subscription created
\* upstream, getFlowReference finds nothing under the key.
C13_ResolvedReferenceIsGone ==
  /\ (last.kind = "processWebhook" /\ last.outcome = "processed" /\ last.obj = 1)
       => ~getFlowReference(last.op, last.key)
  /\ (last.kind = "completeWithToken" /\ last.phase = "return"
        /\ last.answer = "success" /\ operatorConfigs[last.op].usesACR)
       => ~getFlowReference(last.op, last.key)

\* C14: for a webhook-deferred (UK) operator no step of initiateSubscription or
\* completeWithToken hands a request to the HTTP client.
C14_UKNeverCreatesUpstream ==
  (last.kind \in {"initiateSubscription", "completeWithToken"} /\ isUKOperator(last.op))
    => ~last.sent

\* C17: generateAndSendPIN for an operator that requires an amount (a fraud
\* token), called without it, fails with the amount-required (fraud-token-
\* required) error, calls nothing upstream and stores no PIN metadata, whatever
\* client the PINFlow was constructed with.
C17_MissingParameterRejected ==
  [][\A c \in CallIds, op \in IssueOps, p \in IssueParams :
       (/\ last'.op = op
        /\ GeneratePINStart(c, op, p))
         => /\ (operatorConfigs[op].requiresAmount /\ ~p.amount)
                 => (/\ last'.outcome = "AMOUNT_REQUIRED"
                     /\ ~last'.sent
                     /\ UNCHANGED <<pinVars, requests, calls>>)
            /\ (operatorConfigs[op].requiresFraudToken /\ ~p.fraud_token)
                 => (/\ last'.outcome = "FRAUD_TOKEN_REQUIRED"
                     /\ ~last'.sent
                     /\ UNCHANGED <<pinVars, requests, calls>>)]_vars

\* ------------------------------------------------------------------------
\* Properties of the gateway
\* ------------------------------------------------------------------------
\* C16: when the HTTP request of a public operation (createSubscription, charge,
\* generatePIN, sendSMS) for a known operator fails in transport or is answered
\* with an upstream error, the operation returns the normalized error value
\* and raises nothing.
C16_GatewayErrorsAreValues ==
  (last.kind \in PublicOperations /\ last.phase = "return"
     /\ last.answer \in {"error", "throw"})
    => last.outcome = "NORMALIZED_ERROR"

\* ------------------------------------------------------------------------
\* Properties of the response normalizer
\* ------------------------------------------------------------------------
\* C19: processResponse on a success body gives status CHARGED with the
\* original value SUCCESS in the side field when the operator's capability has
\* the alternate success vocabulary and the status is SUCCESS; for every other
\* operator and every other status the status is the one that came in and
\* there is no side field.
C19_AlternateSuccessTranslated ==
  (processed.operator \in Operators /\ processed.response.ok) =>
    IF /\ operatorConfigs[processed.operator].statusResponse = "SUCCESS"
       /\ processed.response.status = "SUCCESS"
    THEN /\ processed.value.status = "CHARGED"
         /\ processed.value.originalStatus = "SUCCESS"
    ELSE /\ processed.value.status = processed.response.status
         /\ processed.value.originalStatus = NoValue

\* a SUCCESS of an operator with the alternate vocabulary has been translated
C19_Witness ==
  /\ processed.response.ok
  /\ processed.response.status = "SUCCESS"
  /\ processed.operator = "zain-kw"
  /\ processed.value.status = "CHARGED"

\* C21: for an operator whose capability is asynchronous or webhook-based,
\* every result of processResponse, for a success payload, an error payload
\* or a pending payload, has isAsync and requiresWebhook set.
C21_AsyncMarkedWhateverThePayload ==
  (/\ processed.operator \in Operators
   /\ marksAsync(processed.operator)
   /\ processed.response.ok \/ processed.response.error
        \/ processed.response.status = "PENDING")
    => processed.value.isAsync /\ processed.value.requiresWebhook

\* the marking is there for success payloads
AsyncMarkedOnSuccess ==
  (processed.operator \in Operators /\ marksAsync(processed.operator)
     /\ processed.response.ok)
    => processed.value.isAsync /\ processed.value.requiresWebhook

\* C22: an error result of processResponse is marked retryable exactly when
\* its code is one of 3001, 3002, 5001, 8001, whatever the operator and the
\* category.
C22_RetryableIffFixedCode ==
  (processed.operator \in Operators /\ processed.response.error) =>
    (processed.value.isRetryable <=>
       processed.response.code \in {"3001", "3002", "5001", "8001"})

\* error payloads with a retryable code have been normalized
C22_Witness ==
  /\ processed.operator \in Operators
  /\ processed.response.error
  /\ processed.response.code = "3002"
  /\ processed.value.isRetryable
  /\ ~processed.value.success

\* ------------------------------------------------------------------------
\* Properties of the checkout start
\* ------------------------------------------------------------------------
\* C31: every checkout start that succeeds, whatever the variant, has created
\* a checkout session that expires 10 minutes later and returns its session id.
C31_CheckoutStartCreatesSession ==
  (/\ last.kind = "initiateSubscription"
   /\ last.outcome \in {"REDIRECT_TO_CHECKOUT", "IMMEDIATE_REDIRECT"})
    => /\ last.obj = Len(pendingCheckouts)
       /\ last.obj >= 1
       /\ pendingCheckouts[last.obj].stored
       /\ pendingCheckouts[last.obj].operator = last.op
       /\ pendingCheckouts[last.obj].expiresAt = now + 10 * 60 * 1000

\* the same for the variants other than the direct one
SessionCreatedUnlessDirect ==
  (last.kind = "initiateSubscription" /\ last.outcome = "REDIRECT_TO_CHECKOUT")
    => /\ last.obj = Len(pendingCheckouts)
       /\ last.obj >= 1
       /\ pendingCheckouts[last.obj].stored
       /\ pendingCheckouts[last.obj].expiresAt = now + 10 * 60 * 1000

\* ------------------------------------------------------------------------
\* Properties of the redirect variants
\* ------------------------------------------------------------------------
\* the last step is an initiateSubscription that returned a redirect for the
\* webhook-deferred, anonymous-reference or async-transaction variant
LastIsKeyedRedirect ==
  /\ last.kind = "initiateSubscription"
  /\ last.outcome = "REDIRECT_TO_CHECKOUT"
  /\ last.op \in {"three-uk", "telenor-mm", "axiata-lk"}

\* C29: for these variants the flow reference is registered under the
\* correlator / transaction id that is returned to the caller, and the same
\* value is in the redirect target, whether the caller supplied it or it was
\* generated.
C29_ReferenceKeyIsReturnedKey ==
  LastIsKeyedRedirect =>
    /\ last.key # NoValue
    /\ last.url = last.key
    /\ getFlowReference(last.op, last.key)
    /\ activeFlows[RefKey(last.op, last.key)].sessionId = last.obj
    /\ activeFlows[RefKey(last.op, last.key)].createdAt = now

\* a redirect whose identifier was generated
C29_Witness ==
  /\ LastIsKeyedRedirect
  /\ last.op = "axiata-lk"
  /\ last.key = GeneratedKey(last.obj)
  /\ last.url = GeneratedKey(last.obj)
  /\ getFlowReference("axiata-lk", GeneratedKey(last.obj))

\* C30: for a plain-redirect operator no flow reference is registered, and
\* completeWithToken called with the session id that initiateSubscription
\* returned, while the session is stored, hands the completion to the checkout
\* flow instead of failing for lack of an active flow.
C30_PlainRedirectTokenExchanged ==
  (/\ last.kind = "completeWithToken"
   /\ last.phase = "start"
   /\ last.op = "9mobile-ng"
   /\ getCheckoutSession(last.obj) # 0
   /\ pendingCheckouts[last.obj].operator = "9mobile-ng")
    => last.outcome # "NO_ACTIVE_FLOW"

\* a plain redirect registers no flow reference
PlainRedirectRegistersNothing ==
  (last.kind = "initiateSubscription" /\ last.op = "9mobile-ng")
    => \A k \in DOMAIN activeFlows : k[1] # "9mobile-ng"

\* ------------------------------------------------------------------------
\* Properties of the code issuance
\* ------------------------------------------------------------------------
\* C28: a successful code issuance leaves, for its key, one pending code that
\* is a new one, with attempt count 0 and expiry 120 seconds after the time of
\* issue, in place of any earlier one, and leaves the other keys alone; a
\* failed issuance creates no pending code and leaves the existing ones as
\* they are.
C28_IssuanceStoresFreshPendingCode ==
  [][(last'.kind = "generatePIN" /\ last'.phase = "return") =>
       LET key == PinKey(last'.op, last'.key)
       IN  IF last'.answer = "success"
           THEN /\ activePINs'[key] = Len(pinHeap')
                /\ Len(pinHeap') = Len(pinHeap) + 1
                /\ activePINs'[key] # activePINs[key]
                /\ pinHeap'[activePINs'[key]].attempts = 0
                /\ pinHeap'[activePINs'[key]].expiresAt = now + 120 * 1000
                /\ \A k \in PinKeys \ {key} : activePINs'[k] = activePINs[k]
                /\ \A m \in 1..Len(pinHeap) : pinHeap'[m] = pinHeap[m]
           ELSE UNCHANGED <<activePINs, pinHeap>>]_vars

\* a code has been issued again for a key whose earlier code had an attempt
\* counted: the new pending code took its place
C28_Witness ==
  /\ last.kind = "generatePIN" /\ last.phase = "return" /\ last.answer = "success"
  /\ activePINs[LastKey] = 2
  /\ pinHeap[1].attempts >= 1
  /\ pinHeap[2].attempts = 0
  /\ now > 0
  /\ pinHeap[2].expiresAt = now + 120 * 1000

\* ------------------------------------------------------------------------
\* Properties of a failed PIN verification
\* ------------------------------------------------------------------------
\* C27: a completeSubscriptionWithPIN call counts its attempt when it starts;
\* when its upstream completion then fails (error result or thrown error) the
\* call ends without touching any pending code: the entry of its key and of
\* every other key, their expiry and their attempt counts stay as they are.
C27_FailedCompletionKeepsPendingCodes ==
  [][(/\ last'.kind = "completePIN"
      /\ last'.phase = "return"
      /\ last'.answer \in {"error", "throw"})
       => UNCHANGED <<activePINs, pinHeap>>]_vars

\* the same for a call during which no other handler ran: the step before
\* the failing return is the call's own start
FailedCompletionAloneKeepsPendingCodes ==
  [][(/\ last'.kind = "completePIN"
      /\ last'.phase = "return"
      /\ last'.answer \in {"error", "throw"}
      /\ last.kind = "completePIN" /\ last.phase = "start" /\ last.sent
      /\ last.obj = last'.obj)
       => /\ UNCHANGED <<activePINs, pinHeap>>
          /\ activePINs[PinKey(last'.op, last'.key)] = last'.obj]_vars

\* ------------------------------------------------------------------------
\* Properties of the fraud-prevention flow
\* ------------------------------------------------------------------------
\* C26: initiateSubscription for the fraud-prevention operator, called with a
\* fraud token, runs the PIN flow: the code issuance request goes upstream
\* (and its success then creates the pending code).
C26_FraudTokenRunsPINFlow ==
  [][\A p \in RoutingParams :
       (/\ last'.op = "mobily-sa"
        /\ p.fraud_token
        /\ \E c \in CallIds : InitiateSubscription(c, "mobily-sa", p))
         => (last'.outcome = "await" /\ last'.sent)]_vars

\* ------------------------------------------------------------------------
\* Properties of the charge verification
\* ------------------------------------------------------------------------
\* C25: a completeChargeWithPIN call that finds a pending code deletes it when
\* the code has expired, and otherwise counts one attempt on it.
C25_ChargeCountsAndExpires ==
  (last.kind = "completeCharge" /\ last.phase = "start" /\ last.obj # 0) =>
    IF PinExpired(now, pinHeap[last.obj].expiresAt)
    THEN activePINs[LastKey] = 0
    ELSE pinHeap[last.obj].attempts >= 1

\* ------------------------------------------------------------------------
\* Properties of the subscription store
\* ------------------------------------------------------------------------
\* the stored subscriptions of (op, msisdn, campaign) with a live status
LiveSubscriptions(op, msisdn, campaign) ==
  {i \in 1..Len(SubscriptionsOf(msisdn)) :
     /\ SubscriptionsOf(msisdn)[i].operator = op
     /\ SubscriptionsOf(msisdn)[i].campaign = campaign
     /\ SubscriptionsOf(msisdn)[i].status \in {"ACTIVE", "FREE", "SUSPENDED"}}

\* C24: createSubscription called while a stored subscription of the same
\* operator, msisdn and campaign has status ACTIVE, FREE or SUSPENDED fails with
\* the already-exists error and starts no flow; and no createSubscription call
\* brings the number of such subscriptions of a key above one.
C24_ExistingSubscriptionRejected ==
  [][\A op \in SubscriptionOps, p \in SubscriptionParams :
       (last'.op = op /\ \E c \in CallIds : CreateSubscription(c, op, p)) =>
         /\ LiveSubscriptions(op, p.msisdn, p.campaign) # {} =>
              /\ last'.outcome = "ALREADY_EXISTS"
              /\ UNCHANGED <<pinVars, pendingCheckouts, flowVars, calls, requests>>
         /\ LET before == Cardinality(LiveSubscriptions(op, p.msisdn, p.campaign))
                after == Cardinality(LiveSubscriptions(op, p.msisdn, p.campaign))'
            IN  after <= IF before > 1 THEN before ELSE 1]_vars

\* a createSubscription call has been refused because of a stored subscription
C24_Witness ==
  /\ last.kind = "createSubscription"
  /\ last.outcome = "ALREADY_EXISTS"
  /\ LiveSubscriptions(last.op, last.key, TRUE) # {}

\* ------------------------------------------------------------------------
\* Properties of the webhook history
\* ------------------------------------------------------------------------
\* C23: after any sequence of storeWebhookHistory calls the history holds at
\* most 100 entries, and they are the last ones stored, in the order of their
\* arrival.
C23_HistoryIsLastHundred ==
  LET n == Len(webhookHistory)
  IN  /\ n <= 100
      /\ n = IF received < 100 THEN received ELSE 100
      /\ \A i \in 1..n : webhookHistory[i].arrival = received - n + i

\* more than 100 entries have been stored and the oldest is gone
C23_Witness ==
  /\ received > 100
  /\ Len(webhookHistory) = 100
  /\ webhookHistory[1].arrival = received - 99

\* the normalizer keeps an anonymous reference of an operator that uses them
\* as the msisdn, sets the flag, and extracts the identifier as a function of
\* the reference alone
NormalizerKeepsReference ==
  (/\ processed.operator \in Operators
   /\ processed.response.ok
   /\ operatorConfigs[processed.operator].usesACR
   /\ startsWith(processed.response.msisdn, TelenorPrefix))
    => /\ processed.value.msisdn = processed.response.msisdn
       /\ processed.value.hasACR
       /\ processed.value.acr = processed.response.msisdn
       /\ processed.value.acrIdentifier = extractACRIdentifier(processed.response.msisdn)

\* C20: an anonymous reference that the upstream platform returns as the
\* subject identifier comes through the completion of a checkout
\* (FlowManager.completeWithToken, completeCheckoutSubscription): when the
\* upstream answers the completion for an operator that uses anonymous
\* references with success, the completion returns the result that carries the
\* reference.
C20_ReferenceSurvivesCompletion ==
  (/\ last.kind \in {"completeWithToken", "completeCheckoutSubscription"}
   /\ last.phase = "return"
   /\ last.answer = "success"
   /\ operatorConfigs[last.op].usesACR)
    => last.outcome = "RESPONSE_SUCCESS"

\* ------------------------------------------------------------------------
\* Properties of the routing by operator
\* ------------------------------------------------------------------------
\* the stores of pending codes, checkout sessions and flow references, the
\* requests handed to the HTTP client and the handlers waiting for an answer
Stores == <<pinHeap, activePINs, pendingCheckouts, activeFlows, flowTimers>>

\* C8: initiateSubscription for an operator of the fraud-prevention flow called
\* without a fraud token returns the LOAD_FRAUD_SCRIPT result, hands no request
\* to the HTTP client and leaves the stores as they were.
C8_NoFraudTokenLoadsScript ==
  [][\A c \in CallIds, op \in RoutingOps \cap Operators, p \in RoutingParams :
       (/\ operatorConfigs[op].flow = "pin_with_fraud_prevention"
        /\ ~p.fraud_token
        /\ last'.op = op
        /\ InitiateSubscription(c, op, p))
         => (/\ last'.outcome = "LOAD_FRAUD_SCRIPT"
             /\ ~last'.sent
             /\ UNCHANGED <<Stores, requests, calls>>)]_vars

C8_Witness ==
  /\ last.kind = "initiateSubscription"
  /\ operatorConfigs[last.op].flow = "pin_with_fraud_prevention"
  /\ last.outcome = "LOAD_FRAUD_SCRIPT"
  /\ ~last.sent

C32_RedirectOrCode ==
  [][last'.kind = "initiateSubscription" =>
       \A c \in CallIds, p \in ChoiceParams :
         InitiateSubscription(c, "ooredoo-kw", p) =>
           IF p.useCheckout
           THEN /\ last'.outcome = "REDIRECT_TO_CHECKOUT"
                /\ Len(pendingCheckouts') = Len(pendingCheckouts) + 1
                /\ requests' = requests
           ELSE IF ~p.amount
           THEN /\ last'.outcome = "AMOUNT_REQUIRED"
                /\ ~last'.sent
                /\ requests' = requests
                /\ calls' = calls
                /\ pinVars' = pinVars
                /\ pendingCheckouts' = pendingCheckouts
           ELSE /\ last'.outcome = "await"
                /\ last'.sent
                /\ calls'[c].kind = "executeSubscriptionFlow"
                /\ requests' = requests (+) SetToBag({Request("pin", "ooredoo-kw", p.msisdn, 0)})
                /\ pendingCheckouts' = pendingCheckouts]_vars

\* the PIN flow of the redirect-or-code operator has been run to its end, after
\* a refusal for want of an amount was seen by no request
C32_PINFlowRun ==
  /\ last.kind = "executeSubscriptionFlow"
  /\ last.op = "ooredoo-kw"
  /\ last.outcome = "AWAIT_PIN_ENTRY"
  /\ activePINs[PinKey("ooredoo-kw", last.key)] # 0
  /\ pendingCheckouts = <<>>

\* ------------------------------------------------------------------------
\* Properties of the flow reference's lifetime
\* ------------------------------------------------------------------------
\* C34: a flow reference stored at time T under (operator, key) stays
\* retrievable at every time before T + 30 minutes unless clearFlowReference is
\* called, also when an earlier reference was stored under the same key and its
\* cleanup timer is still pending: only the webhook that resolves a reference
\* removes it before its deadline.
C34_ReferenceLivesThirtyMinutes ==
  [][\A k \in DOMAIN activeFlows :
       (now' < activeFlows[k].expiresAt /\ k \notin DOMAIN activeFlows')
         => last'.kind = "processWebhook"]_vars

\* ------------------------------------------------------------------------
\* Properties of the deletion with anonymous references
\* ------------------------------------------------------------------------
\* C35: for an operator that uses anonymous references, deleteSubscription with
\* a uuid for which no reference mapping is stored fails with the error that
\* names the missing reference and sends no delete request; when the mapping
\* exists, the request sent carries the stored reference as its msisdn.
C35_DeleteUsesStoredReference ==
  [][(/\ last'.kind = "deleteSubscription"
      /\ last'.phase = "start"
      /\ operatorConfigs[last'.op].usesACR)
       => IF last'.key \notin DOMAIN acrMappings
          THEN /\ last'.outcome = "ACR_NOT_FOUND"
               /\ ~last'.sent
               /\ requests' = requests
          ELSE /\ last'.sent
               /\ requests' = requests (+) SetToBag({Request("subscription/delete", last'.op,
                                                             acrMappings[last'.key], 0)})]_vars

\* a delete request went out with the stored reference in place of the phone
\* number the caller gave, after a deletion without mapping had been refused
C35_ReferenceSent ==
  /\ last.kind = "deleteSubscription"
  /\ last.phase = "start"
  /\ last.sent
  /\ last.key \in DOMAIN acrMappings
  /\ BagIn(Request("subscription/delete", last.op, acrMappings[last.key], 0), requests)
  /\ acrMappings[last.key] \in AnonymousReferences

\* ------------------------------------------------------------------------
\* Properties of the identifier taken from an anonymous reference
\* ------------------------------------------------------------------------
\* C36: for every anonymous reference that processResponse detects, the
\* identifier extracted is at most 30 characters long, and it is the first 30
\* characters that follow the delimiter after the reference's prefix.
C36_IdentifierIsFirstThirtyAfterDelimiter ==
  (/\ last.kind = "processResponse"
   /\ last.outcome = "NORMALIZED_SUCCESS"
   /\ processed.value.hasACR)
    => LET acr == processed.value.acr
           i == IndexOfColon(acr)
       IN  /\ Len(processed.value.acrIdentifier) <= ACR_ID_LENGTH
           /\ i > 0 => processed.value.acrIdentifier
                         = substring(SubSeq(acr, i + 1, Len(acr)), ACR_ID_LENGTH)

\* the same for the references that have one delimiter and no more
IdentifierOfOneDelimiter ==
  (/\ last.kind = "processResponse"
   /\ last.outcome = "NORMALIZED_SUCCESS"
   /\ processed.value.hasACR
   /\ IndexOfColon(processed.value.acr) > 0
   /\ IndexOfColon(SubSeq(processed.value.acr, IndexOfColon(processed.value.acr) + 1,
                          Len(processed.value.acr))) = 0)
    => /\ Len(processed.value.acrIdentifier) <= ACR_ID_LENGTH
       /\ processed.value.acrIdentifier
            = substring(SubSeq(processed.value.acr, IndexOfColon(processed.value.acr) + 1,
                               Len(processed.value.acr)), ACR_ID_LENGTH)

\* ------------------------------------------------------------------------
\* Properties of the gateway and the normalizer taken together
\* ------------------------------------------------------------------------
\* C37: on the path of a public operation (handleResponse of the gateway, then
\* processResponse), an upstream success body with status SUCCESS from an
\* operator of the alternate vocabulary comes out with status CHARGED and with
\* the original value SUCCESS kept in the side field.
C37_EndToEndKeepsOriginalStatus ==
  [][\A upstream \in Bodies, op \in EndToEndOps :
       (/\ PublicOperationAnswer(upstream, op)
        /\ operatorConfigs[op].statusResponse = "SUCCESS"
        /\ upstream.ok
        /\ upstream.status = "SUCCESS")
         => /\ processed'.value.status = "CHARGED"
            /\ processed'.value.originalStatus = "SUCCESS"]_vars

\* on that path the side field is never filled in: the normalizer is handed a
\* body whose status the gateway has already rewritten
EndToEndOriginalNeverKept ==
  (last.kind = "publicOperation" /\ last.outcome = "NORMALIZED_SUCCESS")
    => /\ processed.value.originalStatus = NoValue
       /\ processed.value.status = processed.response.status
       /\ operatorConfigs[processed.operator].statusResponse = "SUCCESS"
            => processed.value.status # "SUCCESS"

\* ------------------------------------------------------------------------
\* Properties of the dispatch by operator
\* ------------------------------------------------------------------------
\* C38: for every operator of the table and every combination of the
\* preference flags, initiateSubscription dispatches to a sub-flow the operator
\* supports: the PIN flow only if supportsPINAPI, a checkout only if
\* supportsCheckout; no dispatch fails because the flow is not supported.
C38_DispatchedFlowIsSupported ==
  (last.kind = "initiateSubscription" /\ last.phase = "start" /\ Known(last.op))
    => /\ last.outcome \notin {"PIN_NOT_SUPPORTED", "CHECKOUT_NOT_SUPPORTED"}
       /\ last.sent => supportsPINAPI(last.op)
       /\ last.outcome \in {"REDIRECT_TO_CHECKOUT", "IMMEDIATE_REDIRECT"}
            => supportsCheckout(last.op)

\* the PIN flow was entered for an operator that offers it beside the checkout
C38_PINBesideCheckout ==
  /\ last.kind = "initiateSubscription"
  /\ last.op = "telenor-digi"
  /\ last.sent
  /\ last.outcome = "await"
  /\ supportsPINAPI(last.op)
  /\ supportsCheckout(last.op)

\* ------------------------------------------------------------------------
\* Properties of the routing of a charge
\* ------------------------------------------------------------------------
\* C39: initiateCharge, for an operator of the table with charge support, runs
\* the PIN charge flow when the operator has the PIN API and preferPIN is set;
\* otherwise, for an operator with checkout, it ends in a checkout redirect
\* with a new checkout session; only an operator with neither fails with the
\* no-charge-flow error.
C39_ChargeRouted ==
  (/\ last.kind = "initiateCharge"
   /\ last.phase = "start"
   /\ Known(last.op)
   /\ ~operatorConfigs[last.op].noChargeAPI)
    => /\ last.sent => supportsPINAPI(last.op)
       /\ (~last.sent /\ supportsCheckout(last.op))
            => /\ last.outcome = "REDIRECT_TO_CHECKOUT"
               /\ last.obj = Len(pendingCheckouts)
               /\ last.obj >= 1
       /\ last.outcome = "NO_CHARGE_FLOW"
            => ~supportsPINAPI(last.op) /\ ~supportsCheckout(last.op)

\* the PIN half of the routing: a charge that went upstream is a PIN request
\* of an operator with the PIN API
ChargeSentIsPIN ==
  (last.kind = "initiateCharge" /\ last.sent)
    => /\ supportsPINAPI(last.op)
       /\ BagIn(Request("pin", last.op, last.key, 0), requests)

\* ------------------------------------------------------------------------
\* Properties of the two indexes of the subscription store
\* ------------------------------------------------------------------------
\* the entries of uuid in the by-msisdn list of msisdn
ListedUnder(msisdn, uuid) ==
  {i \in 1..Len(SubscriptionsOf(msisdn)) : SubscriptionsOf(msisdn)[i].uuid = uuid}

\* C40: after any sequence of storeSubscription, updateSubscription and
\* removeSubscription the two indexes agree: the subscription stored under a
\* uuid is listed exactly once under its msisdn, as the same subscription, and
\* every subscription listed under an msisdn is the one stored under its uuid.
C40_IndexesAgree ==
  /\ \A uuid \in DOMAIN subscriptions :
       LET sub == subscriptions[uuid]
       IN  sub.msisdn # NoValue
             => /\ Cardinality(ListedUnder(sub.msisdn, uuid)) = 1
                /\ \A i \in ListedUnder(sub.msisdn, uuid) : SubscriptionsOf(sub.msisdn)[i] = sub
  /\ \A msisdn \in DOMAIN subscriptionsByMSISDN :
       \A i \in 1..Len(subscriptionsByMSISDN[msisdn]) :
         LET sub == subscriptionsByMSISDN[msisdn][i]
         IN  /\ sub.uuid \in DOMAIN subscriptions
             /\ subscriptions[sub.uuid] = sub

\* what the store does keep: the subscription stored under a uuid that has an
\* msisdn is among those listed under that msisdn
StoredIsListed ==
  \A uuid \in DOMAIN subscriptions :
    LET sub == subscriptions[uuid]
    IN  sub.msisdn # NoValue
          => \E i \in ListedUnder(sub.msisdn, uuid) : SubscriptionsOf(sub.msisdn)[i] = sub

====
